---- MODULE Spec2Model ----
(***************************************************************************)
(* Caption timing engine of VibeVoice: the script parser and the three     *)
(* timing strategies of SimpleCaptionGenerator                             *)
(* (src/vibevoice/caption/simple_caption_generator.py).                    *)
(*                                                                         *)
(* Strings are sequences of one-character strings, so that strip, split    *)
(* and the regular expressions are computed character by character.        *)
(* Times are exact rationals <<numerator, denominator>> (denominator > 0,  *)
(* lowest terms): Python's float arithmetic without its rounding.          *)
(***************************************************************************)
EXTENDS Integers, Sequences, FiniteSets, TLC

VARIABLES
    script,              \* generate_captions_from_script: script
    audio_duration,      \* generate_captions_from_script: audio_duration
    audio_path,          \* "none" (None), "missing" (no such file), "exists"
    asr,                 \* what faster-whisper does when it is called
    ffmpeg,              \* what the ffmpeg silencedetect call does
    pc,                  \* position in generate_captions_from_script
    lines,               \* _parse_script_segments: lines
    line_no,             \* _parse_script_segments: index of the next line
    current_speaker_id,  \* _parse_script_segments: current_speaker_id
    script_segments,     \* the parsed units
    caption_segments,    \* the returned segments
    strategy,            \* which timing strategy produced caption_segments
    speaker_mapping,     \* generate_captions_from_script: speaker_mapping
    cur_seg_idx,         \* _build_segments_from_faster_whisper_alignment: seg_idx
    cur_word_idx,        \* _build_segments_from_faster_whisper_alignment: word_idx
    match,               \* the outcome of the search of lines 553-591 for the last unit
    call,                \* the operation that was called, with its arguments
    result,              \* what the operation returns
    audio_no,            \* the index of the audio path in the loop over audio_paths
    format_no,           \* the index of the next format in the loop over the formats
    unwritable,          \* what cannot be created on disk: a format's file, "captions"
    files,               \* the caption files written
    caption_enabled,     \* VibeVoiceProcessorWithCaptions: caption_enabled
    caption_generator,   \* caption_generator: None, or what the generator was built with
    caption_generator_initialized,  \* _caption_generator_initialized
    caption_model,       \* caption_model
    caption_device,      \* caption_device
    caption_language     \* caption_language

\* the state of the word aligner when it is run unit by unit
aligner == <<cur_seg_idx, cur_word_idx, match>>

\* the state of the operations around generate_captions_from_script
caller == <<call, result, audio_no, format_no, unwritable, files>>

\* the caption state of a VibeVoiceProcessorWithCaptions
captioner == <<caption_enabled, caption_generator, caption_generator_initialized,
               caption_model, caption_device, caption_language>>

vars == <<script, audio_duration, audio_path, asr, ffmpeg, pc, lines, line_no,
          current_speaker_id, script_segments, caption_segments, strategy,
          speaker_mapping, aligner, caller, captioner>>

-----------------------------------------------------------------------------
(* Characters and Python's str operations *)

Whitespace == {" ", "\t", "\n"}

Digits == {"0", "1", "2", "3", "4", "5", "6", "7", "8", "9"}

SentenceEnd == {".", "!", "?"}

Max(a, b) == IF a >= b THEN a ELSE b

Min(a, b) == IF a <= b THEN a ELSE b

UpperLetters ==
    <<"A", "B", "C", "D", "E", "F", "G", "H", "I", "J", "K", "L", "M",
      "N", "O", "P", "Q", "R", "S", "T", "U", "V", "W", "X", "Y", "Z">>

LowerLetters ==
    <<"a", "b", "c", "d", "e", "f", "g", "h", "i", "j", "k", "l", "m",
      "n", "o", "p", "q", "r", "s", "t", "u", "v", "w", "x", "y", "z">>

\* the lowercase of one character (str.lower(), re.IGNORECASE)
Lower(c) ==
    IF \E i \in 1..26 : UpperLetters[i] = c
    THEN LowerLetters[CHOOSE i \in 1..26 : UpperLetters[i] = c]
    ELSE c

\* str.lower()
LowerStr(s) == [k \in 1..Len(s) |-> Lower(s[k])]

DigitVal(c) ==
    CASE c = "0" -> 0 [] c = "1" -> 1 [] c = "2" -> 2 [] c = "3" -> 3 [] c = "4" -> 4
      [] c = "5" -> 5 [] c = "6" -> 6 [] c = "7" -> 7 [] c = "8" -> 8 [] c = "9" -> 9

RECURSIVE ParseInt(_)
\* int(match.group(1))
ParseInt(ds) ==
    IF ds = <<>> THEN 0
    ELSE 10 * ParseInt(SubSeq(ds, 1, Len(ds) - 1)) + DigitVal(ds[Len(ds)])

\* the k-th smallest element of the set of integers P
Nth(P, k) == CHOOSE p \in P : Cardinality({q \in P : q <= p}) = k

\* the first index j >= i with s[j] not in cls (Len(s) + 1 if there is none)
SkipWhile(s, i, cls) ==
    LET stops == {j \in i..Len(s) : s[j] \notin cls}
    IN  IF stops = {} THEN Max(i, Len(s) + 1) ELSE Nth(stops, 1)

\* the last index j <= i with s[j] not in cls (0 if there is none)
SkipBack(s, i, cls) ==
    LET stops == {j \in 1..i : s[j] \notin cls}
    IN  IF stops = {} THEN Min(i, 0) ELSE Nth(stops, Cardinality(stops))

\* str.strip()
Strip(s) == SubSeq(s, SkipWhile(s, 1, Whitespace), SkipBack(s, Len(s), Whitespace))

\* str.split(sep) for a one-character separator
SplitOn(s, sep) ==
    LET seps == {i \in 1..Len(s) : s[i] = sep}
        n == Cardinality(seps)
    IN  [k \in 1..(n + 1) |->
            SubSeq(s, IF k = 1 THEN 1 ELSE Nth(seps, k - 1) + 1,
                      IF k = n + 1 THEN Len(s) ELSE Nth(seps, k) - 1)]

\* str.split(): the maximal runs of non-whitespace characters
Words(s) ==
    LET starts == {i \in 1..Len(s) :
                      s[i] \notin Whitespace /\ (i = 1 \/ s[i - 1] \in Whitespace)}
        other == {s[k] : k \in 1..Len(s)} \ Whitespace
    IN  [k \in 1..Cardinality(starts) |->
            SubSeq(s, Nth(starts, k), SkipWhile(s, Nth(starts, k), other) - 1)]

RECURSIVE Flatten(_)
\* the concatenation of the sequences of ss
Flatten(ss) == IF ss = <<>> THEN <<>> ELSE Head(ss) \o Flatten(Tail(ss))

RECURSIVE Join(_, _)
\* sep.join(parts)
Join(parts, sep) ==
    IF parts = <<>> THEN <<>>
    ELSE IF Len(parts) = 1 THEN parts[1]
    ELSE parts[1] \o sep \o Join(Tail(parts), sep)

\* [p.strip() for p in parts if p and p.strip()]
Select(parts) ==
    LET kept == SelectSeq(parts, LAMBDA p : Strip(p) # <<>>)
    IN  [k \in 1..Len(kept) |-> Strip(kept[k])]

-----------------------------------------------------------------------------
(* The script parser *)

MAX_WORDS == 15

\* current_speaker_id = None
NoSpeaker == -1

SpeakerWord == <<"s", "p", "e", "a", "k", "e", "r">>

\* re.match(r'^Speaker\s+(\d+)\s*:\s*(.*)$', line, re.IGNORECASE)
MatchSpeaker(line) ==
    LET n == Len(line)
        a == SkipWhile(line, 8, Whitespace)
        b == SkipWhile(line, a, Digits)
        c == SkipWhile(line, b, Whitespace)
        d == SkipWhile(line, c + 1, Whitespace)
        ok == /\ n >= 7
              /\ \A i \in 1..7 : Lower(line[i]) = SpeakerWord[i]
              /\ a > 8
              /\ b > a
              /\ c <= n
              /\ line[c] = ":"
    IN  IF ok THEN [ok |-> TRUE, id |-> ParseInt(SubSeq(line, a, b - 1)),
                    text |-> SubSeq(line, d, n)]
        ELSE [ok |-> FALSE, id |-> 0, text |-> <<>>]

\* re.split(r"(?<=[.!?])\s+", s): a match starts at a whitespace character that
\* follows ., ! or ? and takes the whole run of whitespace
ReSplit(s) ==
    LET ms == {i \in 2..Len(s) : s[i] \in Whitespace /\ s[i - 1] \in SentenceEnd}
        n == Cardinality(ms)
    IN  [k \in 1..(n + 1) |->
            SubSeq(s, IF k = 1 THEN 1 ELSE SkipWhile(s, Nth(ms, k - 1), Whitespace),
                      IF k = n + 1 THEN Len(s) ELSE Nth(ms, k) - 1)]

\* _split_into_sentences
SplitIntoSentences(text) ==
    IF Strip(text) = <<>> THEN <<>>
    ELSE LET parts == ReSplit(Strip(text))
             sentences == Select(parts)
         IN  IF sentences = <<>> THEN <<Strip(text)>> ELSE sentences

\* Chunk with char_count taken as the sum of the sentences' lengths
ChunkSumOfSentences(speaker_id, current_chunk, current_word_count) ==
    LET chunk_text == Join(current_chunk, <<" ">>)
    IN  [speaker_id |-> speaker_id, text |-> chunk_text,
         word_count |-> current_word_count, char_count |-> Len(Join(current_chunk, <<>>))]

\* the dictionary built at lines 198-203 and 214-219
Chunk(speaker_id, current_chunk, current_word_count) ==
    LET chunk_text == Join(current_chunk, <<" ">>)
    IN  [speaker_id |-> speaker_id, text |-> chunk_text,
         word_count |-> current_word_count, char_count |-> Len(chunk_text)]

RECURSIVE PackFrom(_, _, _, _, _, _, _)
\* the loop of _split_long_segment over the sentences
PackFrom(speaker_id, sentences, i, max_words, current_chunk, current_word_count, segments) ==
    IF i > Len(sentences)
    THEN IF current_chunk # <<>>
         THEN Append(segments, Chunk(speaker_id, current_chunk, current_word_count))
         ELSE segments
    ELSE LET sentence == sentences[i]
             sentence_word_count == Len(Words(sentence))
         IN  IF current_word_count + sentence_word_count > max_words /\ current_chunk # <<>>
             THEN PackFrom(speaker_id, sentences, i + 1, max_words, <<sentence>>,
                           sentence_word_count,
                           Append(segments,
                                  Chunk(speaker_id, current_chunk, current_word_count)))
             ELSE PackFrom(speaker_id, sentences, i + 1, max_words,
                           Append(current_chunk, sentence),
                           current_word_count + sentence_word_count, segments)

RECURSIVE PackDropping(_, _, _, _, _, _, _)
\* PackFrom starting the new chunk empty when it flushes
PackDropping(speaker_id, sentences, i, max_words, current_chunk, current_word_count, segments) ==
    IF i > Len(sentences)
    THEN IF current_chunk # <<>>
         THEN Append(segments, Chunk(speaker_id, current_chunk, current_word_count))
         ELSE segments
    ELSE LET sentence == sentences[i]
             sentence_word_count == Len(Words(sentence))
         IN  IF current_word_count + sentence_word_count > max_words /\ current_chunk # <<>>
             THEN PackDropping(speaker_id, sentences, i + 1, max_words, <<>>, 0,
                               Append(segments,
                                      Chunk(speaker_id, current_chunk, current_word_count)))
             ELSE PackDropping(speaker_id, sentences, i + 1, max_words,
                               Append(current_chunk, sentence),
                               current_word_count + sentence_word_count, segments)

\* _split_long_segment losing the sentence that triggers a flush
SplitLongSegmentDropping(speaker_id, text) ==
    PackDropping(speaker_id, SplitIntoSentences(text), 1, MAX_WORDS, <<>>, 0, <<>>)

\* _split_long_segment that never flushes: the whole line is one unit
SplitLongSegmentOneChunk(speaker_id, text) ==
    IF SplitIntoSentences(text) = <<>> THEN <<>>
    ELSE <<Chunk(speaker_id, SplitIntoSentences(text), Len(Words(text)))>>

\* _split_long_segment(speaker_id, text, max_words=15)
SplitLongSegment(speaker_id, text) ==
    PackFrom(speaker_id, SplitIntoSentences(text), 1, MAX_WORDS, <<>>, 0, <<>>)

\* script.strip().split('\n')
ScriptLines(s) == SplitOn(Strip(s), "\n")

\* ParseLine giving every line without a label to Speaker 1
ParseLineNoInherit(speaker, raw) ==
    LET line == Strip(raw)
        m == MatchSpeaker(line)
    IN  IF line = <<>> THEN [speaker |-> speaker, units |-> <<>>]
        ELSE IF m.ok
             THEN [speaker |-> m.id,
                   units |-> IF Strip(m.text) # <<>>
                             THEN SplitLongSegment(m.id, Strip(m.text)) ELSE <<>>]
        ELSE [speaker |-> 1, units |-> SplitLongSegment(1, line)]

\* lines 146-162: a line that is not empty; m is the match of line 146
ParseTextLine(speaker, line, m) ==
    IF m.ok
    THEN [speaker |-> m.id,
          units |-> IF Strip(m.text) # <<>>
                    THEN SplitLongSegment(m.id, Strip(m.text)) ELSE <<>>]
    ELSE IF speaker # NoSpeaker
         THEN [speaker |-> speaker, units |-> SplitLongSegment(speaker, line)]
    ELSE [speaker |-> 1, units |-> SplitLongSegment(1, line)]

\* lines 142-162: line is the stripped line
ParseStrippedLine(speaker, line) ==
    IF line = <<>> THEN [speaker |-> speaker, units |-> <<>>]
    ELSE ParseTextLine(speaker, line, MatchSpeaker(line))

\* one iteration of the loop of _parse_script_segments over the lines:
\* the new current_speaker_id and the units the line adds
ParseLine(speaker, raw) == ParseStrippedLine(speaker, Strip(raw))

-----------------------------------------------------------------------------
(* Scripts *)

Letters == <<"a", "b", "c", "d", "e", "f", "g", "h", "i", "j",
             "k", "l", "m", "n", "o", "p", "q", "r", "s", "t">>

\* n one-letter words, from the letter after `from`, separated by single spaces
WordRun(from, n) ==
    [k \in 1..(2 * n - 1) |-> IF k % 2 = 1 THEN Letters[from + (k + 1) \div 2] ELSE " "]

\* a sentence of n words ending in the character e
Sentence(from, n, e) == WordRun(from, n) \o <<e>>

SpeakerPrefix(d) == <<"S", "p", "e", "a", "k", "e", "r", " ", d, ":", " ">>

ParseLineSet ==
    { SpeakerPrefix("1") \o Sentence(0, 2, "."),
      <<"s", "p", "e", "a", "k", "e", "r", " ", "3", ":">> \o Sentence(2, 1, ".")
          \o <<" ">> \o WordRun(3, 2),
      SpeakerPrefix("0") \o Sentence(0, 1, "!"),
      <<"S", "p", "e", "a", "k", "e", "r", " ", "2", ":">>,
      <<" ", " ">>,
      WordRun(0, 3),
      <<" ">> \o Sentence(3, 1, ".") \o <<" ", " ", "e", " ", " ">> \o Sentence(5, 1, "?"),
      <<"S", "P", "E", "A", "K", "E", "R", " ", " ", "2", " ", ":", " ">>
          \o Sentence(0, 16, "."),
      Sentence(0, 10, ".") \o <<" ">> \o Sentence(10, 6, "!"),
      SpeakerPrefix("1") \o Sentence(0, 8, ".") \o <<" ">> \o Sentence(8, 7, "."),
      Sentence(0, 1, ".") \o <<" ">> \o Sentence(1, 16, "."),
      Sentence(0, 16, "?") \o <<"\t">> \o Sentence(16, 1, "."),
      SpeakerPrefix("4") \o Sentence(0, 7, ".") \o <<" ">> \o Sentence(7, 7, ".")
          \o <<" ">> \o Sentence(14, 2, "."),
      <<"S", "p", "e", "a", "k", "e", "r", "2", ":", " ">> \o Sentence(0, 1, "."),
      <<"a", ".", "b", " ", "c">> }

MaxLines == 2

RECURSIVE ScriptsOf(_, _)
\* the scripts of 1..n lines of the set ls, joined by newlines
ScriptsOf(ls, n) ==
    IF n = 1 THEN ls
    ELSE ScriptsOf(ls, n - 1) \cup
         { s \o <<"\n">> \o l : s \in ScriptsOf(ls, n - 1), l \in ls }

ParseScripts == ScriptsOf(ParseLineSet, MaxLines)

-----------------------------------------------------------------------------
(* generate_captions_from_script, step by step *)

\* VibeVoiceProcessorWithCaptions.__init__ with its default arguments: no caption
\* generator yet.  "None" stands for the None of a device or a language.
NewCaptioner ==
    /\ caption_enabled = TRUE
    /\ caption_generator = <<>>
    /\ caption_generator_initialized = FALSE
    /\ caption_model = "base"
    /\ caption_device = "None"
    /\ caption_language = "None"

\* generate_captions_from_script is called directly: the word aligner is not run unit
\* by unit and no operation around the call touches a file
Idle ==
    /\ cur_seg_idx = 0
    /\ cur_word_idx = 0
    /\ match = <<>>
    /\ call = [op |-> "generate_captions_from_script"]
    /\ result = <<>>
    /\ audio_no = 0
    /\ format_no = 0
    /\ unwritable = {}
    /\ files = {}

InLoop == pc = "parse" /\ line_no <= Len(lines)

\* the assignments of one iteration; r is the result of ParseLine
ParseAssign(r) ==
    /\ current_speaker_id' = r.speaker
    /\ script_segments' = script_segments \o r.units
    /\ line_no' = line_no + 1
    /\ UNCHANGED <<captioner, script, audio_duration, audio_path, asr, ffmpeg, pc, lines,
                   caption_segments, strategy, speaker_mapping>>
    /\ UNCHANGED <<aligner, caller>>

ParseStep == ParseAssign(ParseLine(current_speaker_id, lines[line_no]))

\* lines 136-138
ParseBegin ==
    /\ pc = "start"
    /\ lines' = ScriptLines(script)
    /\ line_no' = 1
    /\ current_speaker_id' = NoSpeaker
    /\ script_segments' = <<>>
    /\ pc' = "parse"
    /\ UNCHANGED <<captioner, script, audio_duration, audio_path, asr, ffmpeg, caption_segments,
                   strategy, speaker_mapping>>
    /\ UNCHANGED <<aligner, caller>>

\* lines 141-143: an empty line is skipped
ParseEmptyLine ==
    /\ InLoop
    /\ Strip(lines[line_no]) = <<>>
    /\ ParseStep

\* lines 146-152: a "Speaker N:" line
ParseSpeakerLine ==
    /\ InLoop
    /\ Strip(lines[line_no]) # <<>>
    /\ MatchSpeaker(Strip(lines[line_no])).ok
    /\ ParseStep

\* lines 155-157: a line without a label continues the last speaker
ParseContinuationLine ==
    /\ InLoop
    /\ Strip(lines[line_no]) # <<>>
    /\ ~MatchSpeaker(Strip(lines[line_no])).ok
    /\ current_speaker_id # NoSpeaker
    /\ ParseStep

\* lines 158-162: no speaker yet, default to Speaker 1
ParseDefaultSpeakerLine ==
    /\ InLoop
    /\ Strip(lines[line_no]) # <<>>
    /\ ~MatchSpeaker(Strip(lines[line_no])).ok
    /\ current_speaker_id = NoSpeaker
    /\ ParseStep

\* line 164
ParseReturn ==
    /\ pc = "parse"
    /\ line_no > Len(lines)
    /\ pc' = "parsed"
    /\ UNCHANGED <<captioner, script, audio_duration, audio_path, asr, ffmpeg, lines, line_no,
                   current_speaker_id, script_segments, caption_segments, strategy,
                   speaker_mapping>>
    /\ UNCHANGED <<aligner, caller>>

ParseNext ==
    \/ ParseBegin
    \/ ParseEmptyLine
    \/ ParseSpeakerLine
    \/ ParseContinuationLine
    \/ ParseDefaultSpeakerLine
    \/ ParseReturn

InitParse ==
    /\ script \in ParseScripts
    /\ audio_duration = <<1, 1>>
    /\ audio_path = "none"
    /\ asr = [kind |-> "unavailable", words |-> <<>>]
    /\ ffmpeg = [kind |-> "absent", silences |-> <<>>]
    /\ pc = "start"
    /\ NewCaptioner
    /\ lines = <<>>
    /\ line_no = 1
    /\ current_speaker_id = NoSpeaker
    /\ script_segments = <<>>
    /\ caption_segments = <<>>
    /\ strategy = "none"
    /\ speaker_mapping = <<>>
    /\ Idle

SpecParse == InitParse /\ [][ParseNext]_vars

-----------------------------------------------------------------------------
(* Exact rational arithmetic for times *)

Abs(x) == IF x < 0 THEN -x ELSE x

RECURSIVE GCD(_, _)
GCD(a, b) == IF b = 0 THEN a ELSE GCD(b, a % b)

\* n / d in lowest terms, for d > 0
Frac(n, d) == LET g == GCD(Abs(n), d) IN <<n \div g, d \div g>>

R(n) == <<n, 1>>

RAdd(a, b) == Frac(a[1] * b[2] + b[1] * a[2], a[2] * b[2])

RSub(a, b) == Frac(a[1] * b[2] - b[1] * a[2], a[2] * b[2])

RMul(a, b) == Frac(a[1] * b[1], a[2] * b[2])

\* a / b, for b # 0
RDiv(a, b) ==
    IF b[1] > 0 THEN Frac(a[1] * b[2], a[2] * b[1]) ELSE Frac(-(a[1] * b[2]), -(a[2] * b[1]))

RLt(a, b) == a[1] * b[2] < b[1] * a[2]

RLe(a, b) == a[1] * b[2] <= b[1] * a[2]

RMax(a, b) == IF RLt(a, b) THEN b ELSE a

RMin(a, b) == IF RLt(b, a) THEN b ELSE a

RAbs(a) == <<Abs(a[1]), a[2]>>

RECURSIVE RSum(_)
\* sum(xs)
RSum(xs) == IF xs = <<>> THEN R(0) ELSE RAdd(Head(xs), RSum(Tail(xs)))

RECURSIVE Sum(_)
Sum(xs) == IF xs = <<>> THEN 0 ELSE Head(xs) + Sum(Tail(xs))

-----------------------------------------------------------------------------
(* SimpleCaptionGenerator.__init__ *)

words_per_minute == 120

min_segment_duration == R(1)

max_segment_duration == R(60)

pause_between_speakers == R(1)

pause_between_segments == Frac(4, 5)

min_detected_segment_duration == Frac(3, 5)

-----------------------------------------------------------------------------
(* Caption segments *)

DigitChar(d) ==
    CASE d = 0 -> "0" [] d = 1 -> "1" [] d = 2 -> "2" [] d = 3 -> "3" [] d = 4 -> "4"
      [] d = 5 -> "5" [] d = 6 -> "6" [] d = 7 -> "7" [] d = 8 -> "8" [] d = 9 -> "9"

RECURSIVE IntToChars(_)
\* str(n) for n >= 0
IntToChars(n) ==
    IF n < 10 THEN <<DigitChar(n)>> ELSE Append(IntToChars(n \div 10), DigitChar(n % 10))

\* speaker_mapping.get(speaker_id, f"Speaker {speaker_id}") if speaker_mapping
\* else f"Speaker {speaker_id}"
SpeakerName(mapping, speaker_id) ==
    IF speaker_id \in DOMAIN mapping THEN mapping[speaker_id]
    ELSE <<"S", "p", "e", "a", "k", "e", "r", " ">> \o IntToChars(speaker_id)

\* the dictionary appended to caption_segments by the heuristic and silence paths
Caption(unit, mapping, start, end) ==
    [start_time |-> start, end_time |-> end, text |-> unit.text,
     speaker_id |-> unit.speaker_id,
     speaker_name |-> SpeakerName(mapping, unit.speaker_id),
     confidence |-> R(1), word_count |-> unit.word_count, char_count |-> unit.char_count]

\* caption_segments[-1]['end_time'] = t
SetLastEnd(segs, t) ==
    IF segs = <<>> THEN segs
    ELSE [segs EXCEPT ![Len(segs)] = [@ EXCEPT !.end_time = t]]

-----------------------------------------------------------------------------
(* HeuristicEstimator: _calculate_timing, lines 263-419 *)

\* lines 309-321; i is the 0-based index of the pause
PauseDuration(units, i) ==
    LET n == Len(units)
        half == RMul(R(n), Frac(1, 2))
        base_pause == IF units[i + 2].speaker_id # units[i + 1].speaker_id
                      THEN pause_between_speakers ELSE pause_between_segments
    IN  IF RLe(half, R(i))
        THEN LET progress == RDiv(RSub(R(i), half), half)
             IN  RMul(base_pause, RAdd(R(1), RMul(progress, Frac(1, 2))))
        ELSE base_pause

PauseDurations(units) == [k \in 1..(Len(units) - 1) |-> PauseDuration(units, k - 1)]

\* lines 330-334: the share of available_time that the words of unit i earn
BaseDuration(units, i, available_time) ==
    LET total_words == Sum([k \in 1..Len(units) |-> units[k].word_count])
    IN  IF total_words > 0
        THEN RMul(available_time, Frac(units[i + 1].word_count, total_words))
        ELSE RDiv(available_time, R(Len(units)))

\* lines 338-342: from 20% of the units on, up to 60% more time
SlowedDown(n, i, base_duration) ==
    LET start_at == RMul(R(n), Frac(1, 5))
    IN  IF RLe(start_at, R(i))
        THEN RMul(base_duration,
                  RAdd(R(1), RMul(RDiv(RSub(R(i), start_at), RMul(R(n), Frac(4, 5))),
                                  Frac(3, 5))))
        ELSE base_duration

\* lines 323-344; i is the 0-based index of the unit
BaseSegmentDuration(units, audio_dur, i) ==
    RMax(min_segment_duration,
         SlowedDown(Len(units), i,
                    BaseDuration(units, i, RSub(audio_dur, RSum(PauseDurations(units))))))

BaseSegmentDurations(units, audio_dur) ==
    [k \in 1..Len(units) |-> BaseSegmentDuration(units, audio_dur, k - 1)]

\* lines 348-355: the factor applied to the durations and to the pauses
ScaleFor(total_base_time, audio_dur) ==
    IF RLt(R(0), total_base_time)
       /\ RLt(Frac(1, 100), RAbs(RSub(total_base_time, audio_dur)))
    THEN RDiv(audio_dur, total_base_time)
    ELSE R(1)

\* lines 347-355
ScaleFactor(units, audio_dur) ==
    ScaleFor(RAdd(RSum(BaseSegmentDurations(units, audio_dur)), RSum(PauseDurations(units))),
             audio_dur)

\* lines 367-382: the end of unit i (1-based) that starts at current_time
EndTime(units, audio_dur, scale, i, current_time) ==
    RMin(IF i = Len(units) THEN audio_dur
         ELSE RAdd(current_time, RMul(BaseSegmentDuration(units, audio_dur, i - 1), scale)),
         audio_dur)

\* lines 406-407
FittingPause(pause_duration, remaining_time) ==
    IF RLt(remaining_time, pause_duration) THEN RMax(R(0), remaining_time)
    ELSE pause_duration

\* lines 399-409: current_time after unit i (1-based) that ends at end_time
NextTime(units, audio_dur, scale, i, end_time) ==
    IF i < Len(units)
    THEN RAdd(end_time, FittingPause(RMul(PauseDuration(units, i - 1), scale),
                                     RSub(audio_dur, end_time)))
    ELSE end_time

RECURSIVE HeuristicWalk(_, _, _, _, _, _, _)
\* lines 388-409: unit i (1-based) is emitted with its end_time
HeuristicEmit(units, mapping, audio_dur, scale, i, current_time, segs, end_time) ==
    HeuristicWalk(units, mapping, audio_dur, scale, i + 1,
                  NextTime(units, audio_dur, scale, i, end_time),
                  Append(segs, Caption(units[i], mapping, current_time, end_time)))

\* lines 359-409: the loop emitting the segments; i is the 1-based index of the unit
HeuristicWalk(units, mapping, audio_dur, scale, i, current_time, segs) ==
    IF i > Len(units) THEN segs
    ELSE HeuristicEmit(units, mapping, audio_dur, scale, i, current_time, segs,
                       EndTime(units, audio_dur, scale, i, current_time))

\* the last segment ends at its start plus its scaled duration
UnsnappedLastEnd(segs, units, audio_dur, scale) ==
    SetLastEnd(segs, RAdd(segs[Len(segs)].start_time,
                          RMul(BaseSegmentDuration(units, audio_dur, Len(units) - 1), scale)))

\* HeuristicTiming without the snaps of lines 370-371, 375-377 and 415-417 for the
\* last segment
HeuristicTimingNoSnap(units, mapping, audio_dur) ==
    UnsnappedLastEnd(HeuristicWalk(units, mapping, audio_dur, ScaleFactor(units, audio_dur),
                                   1, R(0), <<>>),
                     units, audio_dur, ScaleFactor(units, audio_dur))

\* lines 263-419: the segments of the heuristic estimator
HeuristicTiming(units, mapping, audio_dur) ==
    SetLastEnd(HeuristicWalk(units, mapping, audio_dur, ScaleFactor(units, audio_dur),
                             1, R(0), <<>>),
               audio_dur)

-----------------------------------------------------------------------------
(* SilenceAligner: _detect_audio_aligned_segments, _map_silences_to_sentences and  *)
(* _build_segments_from_audio_alignment_with_word_count.  A span is <<start, end>>. *)

Dur(span) == RSub(span[2], span[1])

\* sorted(xs) for a sequence of rationals
SortAsc(xs) ==
    LET rank(i) == 1 + Cardinality({j \in 1..Len(xs) :
                        RLt(xs[j], xs[i]) \/ (xs[j] = xs[i] /\ j < i)})
    IN  [k \in 1..Len(xs) |-> xs[CHOOSE i \in 1..Len(xs) : rank(i) = k]]

\* lines 710-735: the speech between the silences
SpeechSegments(silences, audio_dur) ==
    LET n == Len(silences)
        first == IF RLt(R(0), silences[1][1]) THEN <<<<R(0), silences[1][1]>>>> ELSE <<>>
        after(i) ==
            IF i + 1 <= n /\ silences[i + 1][1] # R(0)
            THEN <<<<silences[i][2], silences[i + 1][1]>>>>
            ELSE IF RLt(silences[i][2], audio_dur)
                 THEN <<<<silences[i][2], audio_dur>>>> ELSE <<>>
        speech == first \o Flatten([i \in 1..n |-> after(i)])
    IN  IF speech = <<>> THEN <<<<R(0), audio_dur>>>> ELSE speech

RECURSIVE FilterShortFrom(_, _, _)
\* lines 741-754: a segment shorter than min_detected_segment_duration is merged
\* into the one before it
FilterShortFrom(speech, i, filtered) ==
    IF i > Len(speech) THEN filtered
    ELSE IF RLe(min_detected_segment_duration, Dur(speech[i]))
         THEN FilterShortFrom(speech, i + 1, Append(filtered, speech[i]))
    ELSE IF filtered # <<>>
         THEN FilterShortFrom(speech, i + 1,
                  [filtered EXCEPT ![Len(filtered)] = <<@[1], speech[i][2]>>])
    ELSE FilterShortFrom(speech, i + 1, Append(filtered, speech[i]))

\* the list xs without its element at index i
RemoveAt(xs, i) == SubSeq(xs, 1, i - 1) \o SubSeq(xs, i + 1, Len(xs))

\* the list xs with x inserted so that it gets index i
InsertAt(xs, i, x) == SubSeq(xs, 1, i - 1) \o <<x>> \o SubSeq(xs, i, Len(xs))

RECURSIVE MergeShortFrom(_, _)
\* lines 758-770: two adjacent segments both shorter than 1.5 s are merged
MergeShortFrom(filtered, i) ==
    IF i >= Len(filtered) THEN filtered
    ELSE IF RLt(Dur(filtered[i]), Frac(3, 2)) /\ RLt(Dur(filtered[i + 1]), Frac(3, 2))
         THEN MergeShortFrom(
                  RemoveAt([filtered EXCEPT ![i] = <<@[1], filtered[i + 1][2]>>], i + 1), i)
    ELSE MergeShortFrom(filtered, i + 1)

\* the speech intervals with the first filtering pass left out
FilteredSegmentsOnePass(silences, audio_dur) ==
    MergeShortFrom(SpeechSegments(silences, audio_dur), 1)

\* lines 708-772: the speech intervals after the two filtering passes
FilteredSegments(silences, audio_dur) ==
    MergeShortFrom(FilterShortFrom(SpeechSegments(silences, audio_dur), 1, <<>>), 1)

\* lines 807-812: the start times of the count longest silences, in ascending order
LongestSilenceStarts(silences, count) ==
    LET n == Len(silences)
        rank(i) == 1 + Cardinality({j \in 1..n :
                        \/ RLt(Dur(silences[i]), Dur(silences[j]))
                        \/ (Dur(silences[j]) = Dur(silences[i]) /\ j < i)})
        top == {i \in 1..n : rank(i) <= count}
    IN  SortAsc([k \in 1..Cardinality(top) |-> silences[Nth(top, k)][1]])

\* lines 800-835: the boundaries between the sentences
SelectedSilenceStarts(silences, target_count, audio_dur) ==
    LET silence_starts == SortAsc([i \in 1..Len(silences) |-> silences[i][1]])
        longest == LongestSilenceStarts(silences, target_count - 1)
        near213 == {i \in 1..Len(silences) :
                       RLe(Frac(425, 2), silences[i][1]) /\ RLe(silences[i][1], Frac(427, 2))}
        silence_213 == silences[Nth(near213, 1)][1]
        added == SortAsc(Append(longest, silence_213))
    IN  IF Len(silence_starts) > target_count - 1
        THEN IF near213 # {} /\ silence_213 # R(0)
                /\ \A k \in 1..Len(longest) : longest[k] # silence_213
             THEN IF Len(added) > target_count - 1
                  THEN SubSeq(added, 1, Len(added) - 1) ELSE added
             ELSE longest
        ELSE IF Len(silence_starts) < target_count - 1
             THEN [i \in 1..(target_count - 1) |->
                      RMul(R(i), RDiv(audio_dur, R(target_count)))]
        ELSE silence_starts

RECURSIVE SegmentsBetween(_, _, _, _, _)
\* lines 839-846: one segment up to each boundary, and one to the end of the audio
SegmentsBetween(boundaries, i, cursor, audio_dur, segments) ==
    IF i > Len(boundaries)
    THEN IF RLt(cursor, audio_dur) THEN Append(segments, <<cursor, audio_dur>>)
         ELSE segments
    ELSE SegmentsBetween(boundaries, i + 1, boundaries[i], audio_dur,
             IF RLt(cursor, boundaries[i])
             THEN Append(segments, <<cursor, boundaries[i]>>) ELSE segments)

\* lines 850-864: a segment starting in [205, 213] and ending in [213, 214] that is
\* not the last one is split at 213.0
SplitAt213(segments) ==
    LET hits == {i \in 1..(Len(segments) - 1) :
                    /\ RLe(R(205), segments[i][1]) /\ RLe(segments[i][1], R(213))
                    /\ RLe(R(213), segments[i][2]) /\ RLe(segments[i][2], R(214))}
        i == Nth(hits, 1)
        split == InsertAt([segments EXCEPT ![i] = <<@[1], R(213)>>], i + 1,
                          <<R(213), segments[i][2]>>)
    IN  IF hits = {} THEN segments
        ELSE [j \in 1..Len(split) |->
                 IF j >= i + 2 /\ RLt(split[j][1], R(213))
                 THEN <<R(213), split[j][2]>> ELSE split[j]]

RECURSIVE SplitLongest(_, _)
\* lines 867-873: while there are too few segments, split the longest at its midpoint
SplitLongest(segments, target_count) ==
    IF Len(segments) >= target_count THEN segments
    ELSE LET longest == {i \in 1..Len(segments) :
                            \A j \in 1..Len(segments) : RLe(Dur(segments[j]), Dur(segments[i]))}
             max_idx == Nth(longest, 1)
             mid == RDiv(RAdd(segments[max_idx][1], segments[max_idx][2]), R(2))
         IN  SplitLongest(InsertAt([segments EXCEPT ![max_idx] = <<@[1], mid>>],
                                   max_idx + 1, <<mid, segments[max_idx][2]>>),
                          target_count)

RECURSIVE MergeSmallest(_, _)
\* lines 875-881: while there are too many, merge the adjacent pair of least total length
MergeSmallest(segments, target_count) ==
    IF Len(segments) <= target_count THEN segments
    ELSE LET pair(i) == RAdd(Dur(segments[i]), Dur(segments[i + 1]))
             smallest == {i \in 1..(Len(segments) - 1) :
                             \A j \in 1..(Len(segments) - 1) : RLe(pair(i), pair(j))}
             min_idx == Nth(smallest, 1)
         IN  MergeSmallest(
                 RemoveAt([segments EXCEPT ![min_idx] = <<@[1], segments[min_idx + 1][2]>>],
                          min_idx + 1),
                 target_count)

\* lines 885-895: with more than 25 segments, segment 26 is made to start at 213.0
AdjustSegment26(segments) ==
    IF Len(segments) > 25 /\ RLt(segments[26][1], R(213)) /\ RLe(R(213), segments[26][2])
    THEN [segments EXCEPT ![25] = <<@[1], R(213)>>, ![26] = <<R(213), @[2]>>]
    ELSE segments

\* _map_silences_to_sentences without the two loops of lines 867-881
MapSilencesToSentencesUnfitted(silences, speech_segments, target_count, audio_dur) ==
    IF Len(speech_segments) = target_count THEN speech_segments
    ELSE AdjustSegment26(
             SplitAt213(
                 SegmentsBetween(SelectedSilenceStarts(silences, target_count, audio_dur),
                                 1, R(0), audio_dur, <<>>)))

\* _map_silences_to_sentences
MapSilencesToSentences(silences, speech_segments, target_count, audio_dur) ==
    IF Len(speech_segments) = target_count THEN speech_segments
    ELSE AdjustSegment26(
             MergeSmallest(
                 SplitLongest(
                     SplitAt213(
                         SegmentsBetween(
                             SelectedSilenceStarts(silences, target_count, audio_dur),
                             1, R(0), audio_dur, <<>>)),
                     target_count),
                 target_count))

\* _detect_audio_aligned_segments from line 708 on, for a non-empty list of silences
AudioAlignedSegments(silences, audio_dur, target_segments) ==
    LET filtered_segments == FilteredSegments(silences, audio_dur)
    IN  IF Len(filtered_segments) = target_segments THEN filtered_segments
        ELSE MapSilencesToSentences(silences, filtered_segments, target_segments, audio_dur)

CALIBRATION_OFFSET == R(3)

RECURSIVE ExtendSegments(_, _)
\* lines 989-991
ExtendSegments(audio_segments, n) ==
    IF Len(audio_segments) >= n THEN audio_segments
    ELSE ExtendSegments(
             Append(audio_segments,
                    <<audio_segments[Len(audio_segments)][2],
                      RAdd(audio_segments[Len(audio_segments)][2], R(1))>>), n)

\* lines 984-998: as many audio segments as units, each shifted by the offset
CalibratedSegments(audio_segments, n, audio_dur) ==
    LET fitted == IF Len(audio_segments) > n THEN SubSeq(audio_segments, 1, n)
                  ELSE ExtendSegments(audio_segments, n)
    IN  [k \in 1..Len(fitted) |->
            <<RMax(R(0), RAdd(fitted[k][1], CALIBRATION_OFFSET)),
              RMin(audio_dur, RAdd(fitted[k][2], CALIBRATION_OFFSET))>>]

RECURSIVE MapToAudio(_, _, _, _, _, _, _)
\* lines 1023-1041: walk the audio segments; the result is <<actual_start, actual_end>>
MapToAudio(audio_segments, k, target_start_time, target_end_time, audio_time_cursor, actual_start, actual_end) ==
    IF k > Len(audio_segments) THEN <<actual_start, actual_end>>
    ELSE LET audio_start == audio_segments[k][1]
             audio_dur == Dur(audio_segments[k])
             upto == RAdd(audio_time_cursor, audio_dur)
             start1 == IF RLe(audio_time_cursor, target_start_time)
                          /\ RLt(target_start_time, upto)
                       THEN RAdd(audio_start, RSub(target_start_time, audio_time_cursor))
                       ELSE actual_start
         IN  IF RLt(audio_time_cursor, target_end_time) /\ RLe(target_end_time, upto)
             THEN <<start1, RAdd(audio_start, RSub(target_end_time, audio_time_cursor))>>
             ELSE MapToAudio(audio_segments, k + 1, target_start_time, target_end_time,
                             upto, start1, actual_end)

RECURSIVE SilenceWalk(_, _, _, _, _, _, _)
\* lines 1011-1065: the loop over the units
SilenceWalk(units, audio_segments, mapping, audio_dur, i, cumulative_audio_time, segs) ==
    IF i > Len(units) THEN segs
    ELSE LET total_words == Sum([k \in 1..Len(units) |-> units[k].word_count])
             total_speech_time == RSum([k \in 1..Len(audio_segments) |->
                                           Dur(audio_segments[k])])
             word_prop == IF total_words > 0 THEN Frac(units[i].word_count, total_words)
                          ELSE Frac(1, Len(units))
             segment_duration == RMul(total_speech_time, word_prop)
             target_end_time == RAdd(cumulative_audio_time, segment_duration)
             found == MapToAudio(audio_segments, 1, cumulative_audio_time, target_end_time,
                                 R(0), R(0), R(0))
             end1 == IF found[2] = R(0)
                     THEN RMin(audio_segments[Len(audio_segments)][2],
                               RAdd(found[1], segment_duration))
                     ELSE found[2]
             actual_start == RMax(R(0), RAdd(found[1], CALIBRATION_OFFSET))
             actual_end == RMin(audio_dur, RAdd(end1, CALIBRATION_OFFSET))
         IN  SilenceWalk(units, audio_segments, mapping, audio_dur, i + 1, target_end_time,
                         Append(segs, Caption(units[i], mapping, actual_start, actual_end)))

\* _build_segments_from_audio_alignment_with_word_count
BuildSegmentsFromAudioAlignment(units, audio_segments, mapping, audio_dur) ==
    LET calibrated == CalibratedSegments(audio_segments, Len(units), audio_dur)
    IN  SetLastEnd(SilenceWalk(units, calibrated, mapping, audio_dur, 1, R(0), <<>>),
                   calibrated[Len(calibrated)][2])

-----------------------------------------------------------------------------
(* WordAligner: _align_with_faster_whisper and                               *)
(* _build_segments_from_faster_whisper_alignment.  An ASR word is a record   *)
(* [word, start, end]; indices into the ASR words are 0-based as in the code. *)

\* a value that is None
None == <<>>

RECURSIVE ReplaceAll(_, _, _)
\* str.replace(pat, rep)
ReplaceAll(s, pat, rep) ==
    LET hits == {i \in 1..(Len(s) - Len(pat) + 1) : SubSeq(s, i, i + Len(pat) - 1) = pat}
        i == Nth(hits, 1)
    IN  IF hits = {} THEN s
        ELSE SubSeq(s, 1, i - 1) \o rep
                 \o ReplaceAll(SubSeq(s, i + Len(pat), Len(s)), pat, rep)

\* the index after a match of Speaker\s+\d+:\s* starting at index i of s, or 0
LabelEnd(s, i) ==
    LET a == SkipWhile(s, i + 7, Whitespace)
        b == SkipWhile(s, a, Digits)
    IN  IF /\ i + 6 <= Len(s)
           /\ SubSeq(s, i, i + 6) = <<"S", "p", "e", "a", "k", "e", "r">>
           /\ a > i + 7
           /\ b > a
           /\ b <= Len(s)
           /\ s[b] = ":"
        THEN SkipWhile(s, b + 1, Whitespace)
        ELSE 0

RECURSIVE RemoveLabels(_)
\* re.sub(r'Speaker\s+\d+:\s*', '', s)
RemoveLabels(s) ==
    LET hits == {i \in 1..Len(s) : LabelEnd(s, i) # 0}
        i == Nth(hits, 1)
    IN  IF hits = {} THEN s
        ELSE SubSeq(s, 1, i - 1) \o RemoveLabels(SubSeq(s, LabelEnd(s, i), Len(s)))

\* lines 528-533: the four replace calls as they are written in the source
CleanText(segment_text) ==
    ReplaceAll(
        ReplaceAll(
            ReplaceAll(
                ReplaceAll(
                    ReplaceAll(RemoveLabels(segment_text), <<"'">>, <<"'">>),
                    <<",", " ", "'", "\"", "'", ")", ".", "r", "e", "p", "l", "a", "c", "e",
                      "(">>,
                    <<"\"">>),
                <<"<em dash>">>, <<"-">>),
            <<"<en dash>">>, <<"-">>),
        <<"<ellipsis>">>, <<".", ".", ".">>)

\* w.strip('.,!?;:')
StripPunct(w) ==
    LET cls == {".", ",", "!", "?", ";", ":"}
    IN  SubSeq(w, SkipWhile(w, 1, cls), SkipBack(w, Len(w), cls))

\* [w.strip('.,!?;:').lower() for w in ws]
LowerStripped(ws) == [k \in 1..Len(ws) |-> LowerStr(StripPunct(ws[k]))]

\* line 535
SegmentWords(segment_text) == LowerStripped(Words(CleanText(segment_text)))

\* transcribed_words[i].strip().lower()
Transcribed(word_segments, i) == LowerStr(Strip(word_segments[i + 1].word))

\* s.replace("'", "")
NoApostrophe(s) == ReplaceAll(s, <<"'">>, <<>>)

RECURSIVE MatchRest(_, _, _, _, _, _, _)
\* lines 564-578: the result is <<matched_count, segment_end, matched>>, matched being
\* the indices of the transcribed words that matched_count was incremented for
MatchRest(word_segments, segment_words, j, max_lookahead, matched_count, segment_end, matched) ==
    IF j >= max_lookahead THEN <<matched_count, segment_end, matched>>
    ELSE IF matched_count < Len(segment_words)
         THEN LET expected_word == segment_words[matched_count + 1]
                  next_transcribed == Transcribed(word_segments, j)
              IN  IF \/ next_transcribed = expected_word
                     \/ NoApostrophe(expected_word) = NoApostrophe(next_transcribed)
                  THEN MatchRest(word_segments, segment_words, j + 1, max_lookahead,
                                 matched_count + 1, word_segments[j + 1].end,
                                 Append(matched, j))
                  ELSE IF 10 * matched_count >= 7 * Len(segment_words)
                       THEN <<matched_count, segment_end, matched>>
                  ELSE MatchRest(word_segments, segment_words, j + 1, max_lookahead,
                                 matched_count, segment_end, matched)
    ELSE MatchRest(word_segments, segment_words, j + 1, max_lookahead, matched_count,
                   segment_end, matched)

SEARCH_WINDOW == 200

RECURSIVE FindMatch(_, _, _, _, _)
\* lines 558-591: transcribed word i is the unit's first word; rest is the result of
\* MatchRest from word i + 1 on.  accepted tells that the search ended at line 583 or
\* 590 with this candidate
Candidate(word_segments, segment_words, i, search_limit, st, rest) ==
    IF 10 * rest[1] >= 7 * Len(segment_words)
    THEN [segment_start |-> word_segments[i + 1].start, segment_end |-> rest[2],
          matched_count |-> rest[1], word_idx |-> i + rest[1],
          start_word_idx |-> i, matched |-> rest[3], accepted |-> TRUE]
    ELSE IF 2 * rest[1] >= Len(segment_words)
         THEN [segment_start |-> word_segments[i + 1].start,
               segment_end |-> IF rest[2] = None
                               THEN word_segments[Min(i + rest[1], Len(word_segments))].end
                               ELSE rest[2],
               matched_count |-> rest[1], word_idx |-> i + rest[1],
               start_word_idx |-> i, matched |-> rest[3], accepted |-> TRUE]
    ELSE FindMatch(word_segments, segment_words, i + 1, search_limit,
                   [segment_start |-> word_segments[i + 1].start, segment_end |-> rest[2],
                    matched_count |-> rest[1], word_idx |-> st.word_idx,
                    start_word_idx |-> i, matched |-> rest[3], accepted |-> FALSE])

\* lines 553-562: hits are the indices from i on, below search_limit, of the
\* transcribed words equal to the unit's first word; the loop passes over the other
\* words and comes to the least of them
FindFrom(word_segments, segment_words, search_limit, st, hits) ==
    IF hits = {} THEN st
    ELSE Candidate(word_segments, segment_words, CHOOSE i \in hits : \A k \in hits : i <= k,
                   search_limit, st,
                   MatchRest(word_segments, segment_words,
                             (CHOOSE i \in hits : \A k \in hits : i <= k) + 1,
                             Min((CHOOSE i \in hits : \A k \in hits : i <= k)
                                     + Len(segment_words) + 5, Len(word_segments)),
                             1, st.segment_end,
                             <<CHOOSE i \in hits : \A k \in hits : i <= k>>))

\* lines 553-591: the search for the unit's first word from index i on; st holds
\* segment_start, segment_end, matched_count, start_word_idx and word_idx
FindMatch(word_segments, segment_words, i, search_limit, st) ==
    FindFrom(word_segments, segment_words, search_limit, st,
             {k \in i..(search_limit - 1) : Transcribed(word_segments, k) = segment_words[1]})

\* the search for unit seg_idx through all the words from the cursor on
SearchUnitUnbounded(units, word_segments, seg_idx, word_idx) ==
    FindMatch(word_segments, SegmentWords(units[seg_idx].text), word_idx,
              Len(word_segments),
              [segment_start |-> None, segment_end |-> None, matched_count |-> 0,
               word_idx |-> word_idx, start_word_idx |-> None, matched |-> <<>>,
               accepted |-> FALSE])

\* lines 544-591: the search for unit seg_idx, from the cursor word_idx
SearchUnit(units, word_segments, seg_idx, word_idx) ==
    FindMatch(word_segments, SegmentWords(units[seg_idx].text), word_idx,
              Min(word_idx + SEARCH_WINDOW, Len(word_segments)),
              [segment_start |-> None, segment_end |-> None, matched_count |-> 0,
               word_idx |-> word_idx, start_word_idx |-> None, matched |-> <<>>,
               accepted |-> FALSE])

\* lines 613-617
AfterPrevious(prev_end, segment_start, segment_duration) ==
    IF prev_end # None /\ RLt(segment_start, prev_end)
    THEN <<prev_end, RAdd(prev_end, segment_duration)>>
    ELSE <<segment_start, RAdd(segment_start, segment_duration)>>

\* lines 595-617: proportional timing of a unit no first word was found for
Proportional(units, seg_idx, audio_dur, prev_end) ==
    LET total_words_before == Sum([k \in 1..(seg_idx - 1) |-> units[k].word_count])
        total_words == Sum([k \in 1..Len(units) |-> units[k].word_count])
    IN  AfterPrevious(prev_end,
                      IF total_words > 0
                      THEN RMul(Frac(total_words_before, total_words), audio_dur) ELSE R(0),
                      RDiv(R(units[seg_idx].word_count), Frac(words_per_minute, 60)))

\* the dictionary appended at lines 635-644
WordCaption(unit, mapping, segment_start, segment_end) ==
    [Caption(unit, mapping, segment_start, segment_end) EXCEPT !.char_count = Len(unit.text)]

\* lines 623-644: a unit starting before the end of the previous one is moved
Sequential(unit, mapping, prev_end, segment_start, segment_end) ==
    IF prev_end # None /\ RLt(segment_start, prev_end)
    THEN WordCaption(unit, mapping, prev_end,
                     IF RLe(segment_end, prev_end) THEN RAdd(prev_end, R(1))
                     ELSE segment_end)
    ELSE WordCaption(unit, mapping, segment_start, segment_end)

\* lines 619-644: timed is <<segment_start, segment_end>>, segment_end possibly None
PlaceSegment(unit, mapping, prev_end, timed) ==
    Sequential(unit, mapping, prev_end, timed[1],
               IF timed[2] = None THEN RAdd(timed[1], R(1)) ELSE timed[2])

\* lines 595-617: segment_start and segment_end after the fallback, from the result m
\* of the search; segment_end may still be None
TimedUnit(units, audio_dur, seg_idx, prev_end, m) ==
    IF m.segment_start = None THEN Proportional(units, seg_idx, audio_dur, prev_end)
    ELSE <<m.segment_start, m.segment_end>>

\* lines 595-644: the segment of unit seg_idx and the new word_idx, from the result m
\* of the search
Aligned(units, mapping, audio_dur, seg_idx, prev_end, m) ==
    [segment |-> PlaceSegment(units[seg_idx], mapping, prev_end,
                              TimedUnit(units, audio_dur, seg_idx, prev_end, m)),
     word_idx |-> m.word_idx]

\* lines 540-644: the segment of unit seg_idx, and the new word_idx
AlignUnit(units, word_segments, mapping, audio_dur, seg_idx, word_idx, prev_end) ==
    Aligned(units, mapping, audio_dur, seg_idx, prev_end,
            SearchUnit(units, word_segments, seg_idx, word_idx))

RECURSIVE WordWalk(_, _, _, _, _, _, _)
\* lines 635-644: the segment r.segment is appended, the search resumes at r.word_idx
WordEmit(units, word_segments, mapping, audio_dur, seg_idx, segs, r) ==
    WordWalk(units, word_segments, mapping, audio_dur, seg_idx + 1, r.word_idx,
             Append(segs, r.segment))

\* lines 522-644: the loop over the units
WordWalk(units, word_segments, mapping, audio_dur, seg_idx, word_idx, segs) ==
    IF seg_idx > Len(units) THEN segs
    ELSE IF units[seg_idx].text = <<>> \/ SegmentWords(units[seg_idx].text) = <<>>
         THEN WordWalk(units, word_segments, mapping, audio_dur, seg_idx + 1, word_idx, segs)
    ELSE WordEmit(units, word_segments, mapping, audio_dur, seg_idx, segs,
                  AlignUnit(units, word_segments, mapping, audio_dur, seg_idx, word_idx,
                            IF segs = <<>> THEN None ELSE segs[Len(segs)].end_time))

\* lines 647-648
EndAtAudioDuration(segs, audio_dur) ==
    IF RLt(R(0), audio_dur) THEN SetLastEnd(segs, audio_dur) ELSE segs

\* _build_segments_from_faster_whisper_alignment, for a non-empty list of ASR words
BuildSegmentsFromFasterWhisper(units, word_segments, mapping, audio_dur) ==
    EndAtAudioDuration(WordWalk(units, word_segments, mapping, audio_dur, 1, 0, <<>>),
                       audio_dur)

-----------------------------------------------------------------------------
(* _calculate_timing, step by step *)

\* _align_with_faster_whisper: the ASR words, or None when faster-whisper is not
\* importable, raises (caught at line 489) or returns no word
AlignWithFasterWhisper(a) ==
    IF a.kind = "unavailable" THEN None
    ELSE IF a.kind = "raises" THEN None
    ELSE IF a.words = <<>> THEN None
    ELSE [k \in 1..Len(a.words) |-> [a.words[k] EXCEPT !.word = Strip(@)]]

\* _detect_audio_aligned_segments: the speech spans, or None when ffmpeg is not on
\* PATH, exits with an error (caught at line 683) or reports no silence
DetectAudioAlignedSegments(f, audio_dur, target_segments) ==
    IF f.kind = "absent" THEN None
    ELSE IF f.kind = "fails" THEN None
    ELSE IF f.silences = <<>> THEN None
    ELSE AudioAlignedSegments(f.silences, audio_dur, target_segments)

Return(segs, how) ==
    /\ caption_segments' = segs
    /\ strategy' = how
    /\ pc' = "done"
    /\ UNCHANGED <<captioner, script, audio_duration, audio_path, asr, ffmpeg, lines, line_no,
                   current_speaker_id, script_segments, speaker_mapping>>
    /\ UNCHANGED <<aligner, caller>>

Goto(label) ==
    /\ pc' = label
    /\ UNCHANGED <<captioner, script, audio_duration, audio_path, asr, ffmpeg, lines, line_no,
                   current_speaker_id, script_segments, caption_segments, strategy,
                   speaker_mapping>>
    /\ UNCHANGED <<aligner, caller>>

\* lines 114-116: no unit, the result is the empty list
GenerateNoSegments ==
    /\ pc = "parsed"
    /\ script_segments = <<>>
    /\ Return(<<>>, "none")

\* lines 119-124 and 229-230: _calculate_timing is entered
CalculateTiming ==
    /\ pc = "parsed"
    /\ script_segments # <<>>
    /\ Goto("word")

WordAlignerApplies ==
    /\ audio_path = "exists"
    /\ asr.kind # "unavailable"
    /\ AlignWithFasterWhisper(asr) # None

\* lines 233-242: the word alignment is used
WordAlignment ==
    /\ pc = "word"
    /\ WordAlignerApplies
    /\ Return(BuildSegmentsFromFasterWhisper(script_segments, AlignWithFasterWhisper(asr),
                                             speaker_mapping, audio_duration), "word")

\* lines 233-235: no word alignment, fall through
WordAlignmentUnavailable ==
    /\ pc = "word"
    /\ ~WordAlignerApplies
    /\ Goto("silence")

\* line 253: the spans are neither None nor an empty list
SilenceUsable(audio_aligned_segments) ==
    audio_aligned_segments # None /\ audio_aligned_segments # <<>>

SilenceAlignerApplies ==
    /\ audio_path = "exists"
    /\ SilenceUsable(DetectAudioAlignedSegments(ffmpeg, audio_duration, Len(script_segments)))

\* lines 253-261
UseAudioAlignedSegments(audio_aligned_segments) ==
    /\ SilenceUsable(audio_aligned_segments)
    /\ Return(BuildSegmentsFromAudioAlignment(script_segments, audio_aligned_segments,
                                               speaker_mapping, audio_duration), "silence")

\* lines 245-261: the silence alignment is used
SilenceAlignment ==
    /\ pc = "silence"
    /\ audio_path = "exists"
    /\ UseAudioAlignedSegments(
           DetectAudioAlignedSegments(ffmpeg, audio_duration, Len(script_segments)))

\* lines 245-253: no silence alignment, fall through
SilenceAlignmentUnavailable ==
    /\ pc = "silence"
    /\ ~SilenceAlignerApplies
    /\ Goto("heuristic")

\* lines 263-419
HeuristicEstimate ==
    /\ pc = "heuristic"
    /\ Return(HeuristicTiming(script_segments, speaker_mapping, audio_duration), "heuristic")

TimingNext ==
    \/ GenerateNoSegments
    \/ CalculateTiming
    \/ WordAlignment
    \/ WordAlignmentUnavailable
    \/ SilenceAlignment
    \/ SilenceAlignmentUnavailable
    \/ HeuristicEstimate

Next == ParseNext \/ TimingNext

-----------------------------------------------------------------------------
(* Requests *)

TimingScripts ==
    { SpeakerPrefix("1") \o Sentence(0, 2, "."),
      SpeakerPrefix("1") \o Sentence(0, 2, ".") \o <<"\n">>
          \o SpeakerPrefix("2") \o Sentence(2, 2, "."),
      SpeakerPrefix("1") \o Sentence(0, 1, ".") \o <<"\n">> \o Sentence(1, 2, ".")
          \o <<"\n">> \o SpeakerPrefix("2") \o Sentence(3, 1, "."),
      SpeakerPrefix("1") \o Sentence(0, 1, ".") \o <<"\n">>
          \o SpeakerPrefix("2") \o Sentence(1, 1, ".") \o <<"\n">> \o Sentence(2, 3, "?")
          \o <<"\n">> \o SpeakerPrefix("1") \o Sentence(5, 2, "!"),
      SpeakerPrefix("1") \o <<"S", "p", "e", "a", "k", "e", "r", " ", "2", ":">>,
      SpeakerPrefix("1") \o Sentence(0, 2, ".") \o <<"\n">>
          \o SpeakerPrefix("1") \o <<"S", "p", "e", "a", "k", "e", "r", " ", "2", ":">>
          \o <<"\n">> \o SpeakerPrefix("2") \o Sentence(2, 1, "."),
      <<"S", "p", "e", "a", "k", "e", "r", " ", "2", ":">>,
      Sentence(0, 2, ".") \o <<"\n", "\n">> \o SpeakerPrefix("2") \o Sentence(2, 1, ".") }

\* 199/200 is within the 0.01 of line 348 of the minimum of 1.0 that a single unit
\* is given, so that its duration is not scaled
Durations == {Frac(199, 200), R(1), R(4), R(10)}

Word(w, from, to) == [word |-> w, start |-> from, end |-> to]

AsrWordLists ==
    { <<>>,
      <<Word(<<"a">>, R(0), Frac(1, 2)), Word(<<"b">>, Frac(1, 2), R(1)),
        Word(<<"c">>, R(2), Frac(5, 2)), Word(<<"d">>, Frac(5, 2), R(3))>>,
      <<Word(<<"z">>, R(0), Frac(1, 2))>>,
      <<Word(<<" ", "A">>, R(0), R(1)), Word(<<"x">>, R(1), R(2)),
        Word(<<"b", ".">>, R(2), R(3)), Word(<<"c">>, Frac(7, 2), R(4)),
        Word(<<"d">>, R(11), R(12))>> }

AsrOutcomes ==
    { [kind |-> "unavailable", words |-> <<>>], [kind |-> "raises", words |-> <<>>] }
        \cup { [kind |-> "words", words |-> ws] : ws \in AsrWordLists }

SilenceTimes == {R(0), Frac(1, 2), R(2), R(3), Frac(7, 2), Frac(13, 2), R(10)}

MaxSilences == 2

\* the k-th smallest rational of the set T
NthTime(T, k) == CHOOSE t \in T : Cardinality({u \in T : RLe(u, t)}) = k

\* the lists of at most MaxSilences silences with distinct ascending end points in
\* SilenceTimes
SilenceLists ==
    { [i \in 1..(Cardinality(T) \div 2) |-> <<NthTime(T, 2 * i - 1), NthTime(T, 2 * i)>>] :
          T \in {U \in SUBSET SilenceTimes :
                    Cardinality(U) % 2 = 0 /\ Cardinality(U) <= 2 * MaxSilences} }

FfmpegOutcomes ==
    { [kind |-> "absent", silences |-> <<>>], [kind |-> "fails", silences |-> <<>>] }
        \cup { [kind |-> "ok", silences |-> sl] : sl \in SilenceLists }

\* the silences of scenario S5: speech spans (0, 3) and (3.5, 6.5)
SilencesS5 == <<<<R(3), Frac(7, 2)>>, <<Frac(13, 2), R(10)>>>>

\* silences of a long recording, the shortest of them near 213 s: with three units the
\* boundaries 206 and 213.5 give a segment (206, 213.5), which lines 850-864 split
Silences213 ==
    <<<<R(206), R(208)>>, <<Frac(427, 2), Frac(429, 2)>>, <<R(217), R(219)>>>>

MatchingWords ==
    <<Word(<<"a">>, R(0), Frac(1, 2)), Word(<<"b">>, Frac(1, 2), R(1)),
      Word(<<"c">>, R(2), Frac(5, 2)), Word(<<"d">>, Frac(5, 2), R(3))>>

Init ==
    /\ script \in TimingScripts
    /\ audio_duration \in Durations \cup {R(220)}
    /\ \/ /\ audio_path \in {"none", "missing"}
          /\ asr \in { [kind |-> "unavailable", words |-> <<>>],
                       [kind |-> "words", words |-> MatchingWords] }
          /\ ffmpeg \in { [kind |-> "absent", silences |-> <<>>],
                          [kind |-> "ok", silences |-> SilencesS5] }
          /\ speaker_mapping \in { <<>>, 1 :> <<"A", "l", "i", "c", "e">> }
       \/ /\ audio_path = "exists"
          /\ asr \in AsrOutcomes
          /\ ffmpeg \in { [kind |-> "absent", silences |-> <<>>],
                          [kind |-> "ok", silences |-> SilencesS5] }
          /\ speaker_mapping = <<>>
       \/ /\ audio_path = "exists"
          /\ asr \in { [kind |-> "unavailable", words |-> <<>>],
                       [kind |-> "raises", words |-> <<>>],
                       [kind |-> "words", words |-> <<>>] }
          /\ ffmpeg \in FfmpegOutcomes
          /\ speaker_mapping = <<>>
       \/ /\ audio_path = "exists"
          /\ asr = [kind |-> "unavailable", words |-> <<>>]
          /\ ffmpeg = [kind |-> "ok", silences |-> Silences213]
          /\ speaker_mapping = <<>>
    /\ ffmpeg.silences = Silences213 => audio_duration = R(220)
    /\ audio_duration = R(220) =>
           \/ ffmpeg.silences = Silences213
           \/ audio_path = "none" /\ Len(ScriptLines(script)) = 1
    /\ \A i \in 1..Len(ffmpeg.silences) : RLe(ffmpeg.silences[i][2], audio_duration)
    /\ pc = "start"
    /\ NewCaptioner
    /\ lines = <<>>
    /\ line_no = 1
    /\ current_speaker_id = NoSpeaker
    /\ script_segments = <<>>
    /\ caption_segments = <<>>
    /\ strategy = "none"
    /\ Idle

Spec == Init /\ [][Next]_vars

-----------------------------------------------------------------------------
(* _build_segments_from_faster_whisper_alignment, unit by unit *)

\* lines 506-520: the words of the transcription are not empty, the loop begins
WordBegin ==
    /\ pc = "word"
    /\ WordAlignerApplies
    /\ pc' = "align"
    /\ caption_segments' = <<>>
    /\ cur_seg_idx' = 1
    /\ cur_word_idx' = 0
    /\ match' = <<>>
    /\ UNCHANGED <<captioner, script, audio_duration, audio_path, asr, ffmpeg, lines, line_no,
                   current_speaker_id, script_segments, strategy, speaker_mapping, caller>>

\* lines 523-538: a unit without text or without a word is passed over
WordSkipUnit ==
    /\ pc = "align"
    /\ cur_seg_idx <= Len(script_segments)
    /\ \/ script_segments[cur_seg_idx].text = <<>>
       \/ SegmentWords(script_segments[cur_seg_idx].text) = <<>>
    /\ cur_seg_idx' = cur_seg_idx + 1
    /\ match' = <<>>
    /\ UNCHANGED <<captioner, script, audio_duration, audio_path, asr, ffmpeg, pc, lines, line_no,
                   current_speaker_id, script_segments, caption_segments, strategy,
                   speaker_mapping, cur_word_idx, caller>>

\* lines 595-644: the segment of the unit is appended and the cursor set, from the
\* result m of the search and the times `timed` after the fallback.  match keeps the
\* cursor before the search, the outcome of the search and segment_start and
\* segment_end as they are after line 620
RecordAlignment(m, prev_end, timed) ==
    /\ caption_segments' = Append(caption_segments,
                                  PlaceSegment(script_segments[cur_seg_idx], speaker_mapping,
                                               prev_end, timed))
    /\ cur_word_idx' = m.word_idx
    /\ cur_seg_idx' = cur_seg_idx + 1
    /\ match' = [seg_idx |-> cur_seg_idx, word_idx |-> cur_word_idx,
                 accepted |-> m.accepted, start_word_idx |-> m.start_word_idx,
                 matched |-> m.matched, prev_end |-> prev_end,
                 segment_start |-> timed[1],
                 segment_end |-> IF timed[2] = None THEN RAdd(timed[1], R(1)) ELSE timed[2]]
    /\ UNCHANGED <<captioner, script, audio_duration, audio_path, asr, ffmpeg, pc, lines, line_no,
                   current_speaker_id, script_segments, strategy, speaker_mapping, caller>>

\* lines 540-620: the search for the unit and the fallback
TimeUnit(m, prev_end) ==
    RecordAlignment(m, prev_end,
                    TimedUnit(script_segments, audio_duration, cur_seg_idx, prev_end, m))

\* lines 522-644: one iteration of the loop for a unit with words
WordAlignUnit ==
    /\ pc = "align"
    /\ cur_seg_idx <= Len(script_segments)
    /\ script_segments[cur_seg_idx].text # <<>>
    /\ SegmentWords(script_segments[cur_seg_idx].text) # <<>>
    /\ TimeUnit(SearchUnit(script_segments, AlignWithFasterWhisper(asr), cur_seg_idx,
                           cur_word_idx),
                IF caption_segments = <<>> THEN None
                ELSE caption_segments[Len(caption_segments)].end_time)

\* lines 646-652
WordEnd ==
    /\ pc = "align"
    /\ cur_seg_idx > Len(script_segments)
    /\ Return(EndAtAudioDuration(caption_segments, audio_duration), "word")

WordNext ==
    \/ ParseNext
    \/ GenerateNoSegments
    \/ CalculateTiming
    \/ WordBegin
    \/ WordSkipUnit
    \/ WordAlignUnit
    \/ WordEnd

\* transcriptions: the words of the script, words unrelated to it, words with other
\* spellings, the first word of a unit of three followed by another word, the words of
\* the script with another word between them, and a transcription with the last word
\* of the search window and the first word after it
WordAsrLists ==
    (AsrWordLists \ {<<>>})
    \cup { <<Word(<<"c">>, R(1), Frac(3, 2)), Word(<<"x">>, Frac(3, 2), R(2))>>,
           <<Word(<<"a">>, R(0), Frac(1, 2)), Word(<<"x">>, Frac(1, 2), R(1)),
             Word(<<"b">>, R(1), Frac(3, 2)), Word(<<"c">>, R(2), Frac(5, 2)),
             Word(<<"d">>, Frac(5, 2), R(3))>>,
           [k \in 1..(SEARCH_WINDOW + 2) |->
               Word(IF k = SEARCH_WINDOW THEN <<"b">>
                    ELSE IF k = SEARCH_WINDOW + 1 THEN <<"c">> ELSE <<"x">>,
                    R(k - 1), R(k))] }

InitWord ==
    /\ script \in TimingScripts
    /\ audio_duration \in {R(4), R(10)}
    /\ audio_path = "exists"
    /\ asr \in {[kind |-> "words", words |-> ws] : ws \in WordAsrLists}
    /\ ffmpeg = [kind |-> "absent", silences |-> <<>>]
    /\ speaker_mapping = <<>>
    /\ pc = "start"
    /\ NewCaptioner
    /\ lines = <<>>
    /\ line_no = 1
    /\ current_speaker_id = NoSpeaker
    /\ script_segments = <<>>
    /\ caption_segments = <<>>
    /\ strategy = "none"
    /\ Idle

SpecWord == InitWord /\ [][WordNext]_vars

-----------------------------------------------------------------------------
(* split_long_segments *)

\* lines 1274-1302: the pieces that replace a segment of a duration above max_duration
SplitSegment(segment, duration, max_duration) ==
    LET words == Words(segment.text)
        ratio == RDiv(duration, max_duration)
        num_segments == Max(1, ratio[1] \div ratio[2])
        words_per_segment == Len(words) \div num_segments
        segment_duration == RDiv(duration, R(num_segments))
    IN  [k \in 1..num_segments |->
            LET start_word == (k - 1) * words_per_segment
                end_word == IF k - 1 < num_segments - 1 THEN start_word + words_per_segment
                            ELSE Len(words)
                segment_text == Join(SubSeq(words, start_word + 1, end_word), <<" ">>)
                segment_start == RAdd(segment.start_time, RMul(R(k - 1), segment_duration))
            IN  [start_time |-> segment_start,
                 end_time |-> RAdd(segment_start, segment_duration),
                 text |-> segment_text,
                 speaker_id |-> segment.speaker_id,
                 speaker_name |-> segment.speaker_name,
                 confidence |-> segment.confidence,
                 word_count |-> Len(Words(segment_text)),
                 char_count |-> Len(segment_text)]]

\* lines 1265-1304
SplitLongSegments(segments, max_duration) ==
    Flatten([k \in 1..Len(segments) |->
                IF RLe(RSub(segments[k].end_time, segments[k].start_time), max_duration)
                THEN <<segments[k]>>
                ELSE SplitSegment(segments[k],
                                  RSub(segments[k].end_time, segments[k].start_time),
                                  max_duration)])

-----------------------------------------------------------------------------
(* CaptionFormatter (src/vibevoice/caption/caption_formatter.py).             *)
(* A time given to a formatter is a whole number k of milliseconds; the       *)
(* float the code works on is the double nearest to k / 1000.                 *)

RECURSIVE FloorLog2(_, _)
\* the binary exponent of k / d: the largest E with 2^E <= k / d, for k >= 1
FloorLog2(k, d) ==
    IF k >= d
    THEN IF 2 * d <= k THEN 1 + FloorLog2(k, 2 * d) ELSE 0
    ELSE FloorLog2(2 * k, d) - 1

RECURSIVE Pow2Mod(_, _)
\* 2^e modulo n
Pow2Mod(e, n) == IF e = 0 THEN 1 % n ELSE (2 * Pow2Mod(e - 1, n)) % n

\* lines 192-195: milliseconds = int((seconds % 1) * 1000) for the double x nearest to
\* k / 1000. The mantissa of x is q = round(k * 2^e / 1000), with 2^52 <= q < 2^53;
\* divmod and % are exact on doubles, so seconds % 1 is x minus its integer part, and
\* (seconds % 1) * 1000 is the double nearest to m - r * 2^-e when x was rounded
\* down by r / 1000 units of its last place (m is k modulo 1000). int() truncates: the
\* result is m - 1 unless that product rounds back up to m.
Milliseconds(k) ==
    LET m == k % 1000
        e == 52 - FloorLog2(k, 1000)
        p == ((k % 2000) * Pow2Mod(e, 2000)) % 2000
        r == p % 1000
        rounded_down == (0 < r /\ r < 500) \/ (r = 500 /\ p < 1000)
        L == FloorLog2(m, 1)
        half_gap == e + L - 53 - (IF m = 2 ^ L THEN 1 ELSE 0)
    IN  IF m = 0 \/ ~rounded_down THEN m
        ELSE IF half_gap < 0 \/ r > 2 ^ half_gap THEN m - 1
        ELSE m

\* f"{n:02d}" and f"{n:03d}": str(n) padded with zeros to the width
ZeroPad(n, width) ==
    [k \in 1..(width - Len(IntToChars(n))) |-> "0"] \o IntToChars(n)

\* lines 193-194: f"{int(hours):02d}:{int(minutes):02d}:{int(seconds):02d}"
HoursMinutesSeconds(k) ==
    ZeroPad(k \div 3600000, 2) \o <<":">> \o ZeroPad((k \div 60000) % 60, 2) \o <<":">>
        \o ZeroPad((k \div 1000) % 60, 2)

\* _format_srt_time, lines 190-197
FormatSrtTime(k) == HoursMinutesSeconds(k) \o <<",">> \o ZeroPad(Milliseconds(k), 3)

\* _format_vtt_time, lines 199-206: f"{seconds:06.3f}" rounds the double to three
\* decimals, which gives back the milliseconds of k
FormatVttTime(k) == HoursMinutesSeconds(k) \o <<".">> \o ZeroPad(k % 1000, 3)

\* _format_readable_time, lines 208-212
FormatReadableTime(k) ==
    ZeroPad(k \div 60000, 2) \o <<":">> \o ZeroPad((k \div 1000) % 60, 2)

\* the whole number of milliseconds of a time of a segment
Millis(t) == (t[1] * 1000) \div t[2]

\* lines 42-56: the four entries of segment i
SrtEntry(i, segment) ==
    << IntToChars(i),
       FormatSrtTime(Millis(segment.start_time)) \o <<" ", "-", "-", ">", " ">>
           \o FormatSrtTime(Millis(segment.end_time)),
       IF segment.speaker_name # <<>>
       THEN <<"[">> \o segment.speaker_name \o <<"]", " ">> \o Strip(segment.text)
       ELSE Strip(segment.text),
       <<>> >>

\* format_srt without an output path, lines 39-66
FormatSrt(segments) ==
    Join(Flatten([i \in 1..Len(segments) |-> SrtEntry(i, segments[i])]), <<"\n">>)

\* the line of a segment with the speaker label only beside a timestamp
TranscriptLineCoupled(segment, include_timestamps, include_speakers) ==
    Join((IF include_timestamps
          THEN << <<"[">> \o FormatReadableTime(Millis(segment.start_time)) \o <<"]">> >>
          ELSE <<>>)
         \o (IF include_timestamps /\ include_speakers /\ segment.speaker_name # <<>>
             THEN << segment.speaker_name \o <<":">> >> ELSE <<>>)
         \o << Strip(segment.text) >>,
         <<" ">>)

\* lines 166-178: the line of a segment with text
TranscriptLine(segment, include_timestamps, include_speakers) ==
    Join((IF include_timestamps
          THEN << <<"[">> \o FormatReadableTime(Millis(segment.start_time)) \o <<"]">> >>
          ELSE <<>>)
         \o (IF include_speakers /\ segment.speaker_name # <<>>
             THEN << segment.speaker_name \o <<":">> >> ELSE <<>>)
         \o << Strip(segment.text) >>,
         <<" ">>)

\* format_transcript without an output path, lines 156-188
FormatTranscript(segments, include_timestamps, include_speakers) ==
    Join([k \in 1..Len(SelectSeq(segments, LAMBDA s : Strip(s.text) # <<>>)) |->
             TranscriptLine(SelectSeq(segments, LAMBDA s : Strip(s.text) # <<>>)[k],
                            include_timestamps, include_speakers)],
         <<"\n">>)

\* lines 234-239: the formats of a package, in the order of the dictionary
PackageFormats == <<"srt", "vtt", "json", "transcript">>

\* line 242: os.path.join(output_dir, f"{base_filename}.{format_name}")
PackagePath(base_filename, format_name) == <<base_filename, ".", format_name>>

\* a call of a formatter or of split_long_segments returns v
Returns(v) ==
    /\ result' = v
    /\ pc' = "returned"
    /\ UNCHANGED <<captioner, script, audio_duration, audio_path, asr, ffmpeg, lines, line_no,
                   current_speaker_id, script_segments, caption_segments, strategy,
                   speaker_mapping, aligner, call, audio_no, format_no, unwritable, files>>

CallFormatSrt ==
    /\ pc = "call"
    /\ call.op = "format_srt"
    /\ Returns(FormatSrt(caption_segments))

CallFormatTranscript ==
    /\ pc = "call"
    /\ call.op = "format_transcript"
    /\ Returns(FormatTranscript(caption_segments, call.include_timestamps,
                                call.include_speakers))

CallFormatSrtTime ==
    /\ pc = "call"
    /\ call.op = "_format_srt_time"
    /\ Returns(FormatSrtTime(call.seconds))

CallFormatVttTime ==
    /\ pc = "call"
    /\ call.op = "_format_vtt_time"
    /\ Returns(FormatVttTime(call.seconds))

CallSplitLongSegments ==
    /\ pc = "call"
    /\ call.op = "split_long_segments"
    /\ Returns(SplitLongSegments(caption_segments, call.max_duration))

\* lines 229-231: os.makedirs raises when the directory cannot be created
CreateCaptionPackage ==
    /\ pc = "call"
    /\ call.op = "create_caption_package"
    /\ IF "captions" \in unwritable
       THEN result' = [raised |-> "OSError"] /\ pc' = "returned" /\ format_no' = format_no
       ELSE result' = <<>> /\ pc' = "package" /\ format_no' = 1
    /\ UNCHANGED <<captioner, script, audio_duration, audio_path, asr, ffmpeg, lines, line_no,
                   current_speaker_id, script_segments, caption_segments, strategy,
                   speaker_mapping, aligner, call, audio_no, unwritable, files>>

\* lines 241-244: the file of the next format is written (lines 60-64, 100-104,
\* 132-136, 182-186) and recorded
PackageWrite ==
    /\ pc = "package"
    /\ format_no <= Len(PackageFormats)
    /\ PackageFormats[format_no] \notin unwritable
    /\ files' = files \cup {PackagePath(call.base_filename, PackageFormats[format_no])}
    /\ result' = (PackageFormats[format_no]
                      :> PackagePath(call.base_filename, PackageFormats[format_no]))
                 @@ result
    /\ format_no' = format_no + 1
    /\ UNCHANGED <<captioner, script, audio_duration, audio_path, asr, ffmpeg, pc, lines, line_no,
                   current_speaker_id, script_segments, caption_segments, strategy,
                   speaker_mapping, aligner, call, audio_no, unwritable>>

\* line 243: the exception of open() leaves create_caption_package
PackageWriteFails ==
    /\ pc = "package"
    /\ format_no <= Len(PackageFormats)
    /\ PackageFormats[format_no] \in unwritable
    /\ result' = [raised |-> "OSError"]
    /\ pc' = "returned"
    /\ UNCHANGED <<captioner, script, audio_duration, audio_path, asr, ffmpeg, lines, line_no,
                   current_speaker_id, script_segments, caption_segments, strategy,
                   speaker_mapping, aligner, call, audio_no, format_no, unwritable, files>>

\* lines 246-247
PackageReturn ==
    /\ pc = "package"
    /\ format_no > Len(PackageFormats)
    /\ pc' = "returned"
    /\ UNCHANGED <<captioner, script, audio_duration, audio_path, asr, ffmpeg, lines, line_no,
                   current_speaker_id, script_segments, caption_segments, strategy,
                   speaker_mapping, aligner, caller>>

FormatNext ==
    \/ CallFormatSrt
    \/ CallFormatTranscript
    \/ CallFormatSrtTime
    \/ CallFormatVttTime
    \/ CallSplitLongSegments
    \/ CreateCaptionPackage
    \/ PackageWrite
    \/ PackageWriteFails
    \/ PackageReturn

MaxMillis == 2500

\* times in milliseconds: the first ones, and the last of a minute, of an hour and of
\* the hundred hours that HH can hold, with the first of the next
Times ==
    0..MaxMillis \cup {59999, 60000, 3599999, 3600000, 359999999}

\* segments as the generator and split_long_segments build them: with and without a
\* speaker name, longer than max_duration, and with the empty text of a piece that
\* split_long_segments had no word for
FormatSegments ==
    LET Seg(from, to, name, txt) ==
            [start_time |-> from, end_time |-> to, text |-> txt, speaker_id |-> 1,
             speaker_name |-> name, confidence |-> R(1), word_count |-> Len(Words(txt)),
             char_count |-> Len(txt)]
    IN  { Seg(R(0), Frac(5, 2), <<"A", "l", "i", "c", "e">>, <<"H", "i">>),
          Seg(R(3), R(28), <<>>, WordRun(0, 3)),
          Seg(R(61), Frac(62001, 1000), <<"B", "o", "b">>, Sentence(3, 2, ".")),
          Seg(R(70), R(80), <<"B", "o", "b">>, <<>>) }

MaxSegments == 2

RECURSIVE SegmentLists(_)
\* the lists of at most n segments
SegmentLists(n) ==
    IF n = 0 THEN {<<>>}
    ELSE SegmentLists(n - 1) \cup
         {Append(l, s) : l \in {x \in SegmentLists(n - 1) : Len(x) = n - 1},
                         s \in FormatSegments}

FormatCalls ==
    [op : {"format_srt", "create_caption_package"}, base_filename : {"a"}]
    \cup [op : {"format_transcript"}, include_timestamps : BOOLEAN,
          include_speakers : BOOLEAN]
    \cup [op : {"split_long_segments"}, max_duration : {R(1), R(8), R(10)}]

InitFormat ==
    /\ \/ /\ call \in FormatCalls
          /\ caption_segments \in SegmentLists(MaxSegments)
          /\ unwritable \in IF call.op = "create_caption_package"
                            THEN {{}, {"srt"}, {"json"}, {"captions"}} ELSE {{}}
       \/ /\ call \in [op : {"_format_srt_time", "_format_vtt_time"}, seconds : Times]
          /\ caption_segments = <<>>
          /\ unwritable = {}
    /\ script = <<>>
    /\ audio_duration = R(1)
    /\ audio_path = "none"
    /\ asr = [kind |-> "unavailable", words |-> <<>>]
    /\ ffmpeg = [kind |-> "absent", silences |-> <<>>]
    /\ speaker_mapping = <<>>
    /\ pc = "call"
    /\ NewCaptioner
    /\ lines = <<>>
    /\ line_no = 1
    /\ current_speaker_id = NoSpeaker
    /\ script_segments = <<>>
    /\ strategy = "none"
    /\ cur_seg_idx = 0
    /\ cur_word_idx = 0
    /\ match = <<>>
    /\ result = <<>>
    /\ audio_no = 0
    /\ format_no = 0
    /\ files = {}

SpecFormat == InitFormat /\ [][FormatNext]_vars

-----------------------------------------------------------------------------
(* VibeVoiceProcessorSimpleCaptions: save_audio_with_captions and             *)
(* generate_captions_for_audio                                                *)
(* (src/vibevoice/processor/vibevoice_processor_simple_captions.py).          *)
(* The calls of generate_captions_from_script are the steps above; the       *)
(* processor builds its generator with the ASR absent.                        *)

\* line 38: the max_segment_duration of the processor
processor_max_segment_duration == R(10)

\* lines 162-163 and 269-270
CaptionFormats ==
    IF call.caption_formats = None THEN <<"srt", "vtt", "transcript">>
    ELSE call.caption_formats

\* lines 166 and 272: the stem of the audio path the files are written for
BaseName ==
    IF call.op = "save_audio_with_captions" THEN call.audio_paths[audio_no]
    ELSE call.audio_path

\* lines 174-198: the path of the file of a format, under the captions directory
CaptionPath(base_name, format_name) ==
    CASE format_name = "srt" -> <<base_name, ".srt">>
      [] format_name = "vtt" -> <<base_name, ".vtt">>
      [] format_name = "json" -> <<base_name, ".json">>
      [] format_name = "transcript" -> <<base_name, ".txt">>
      [] format_name = "script_timing" -> <<base_name, "_timing.txt">>

\* SimpleCaptionFormatter.format_srt, format_vtt, format_json, format_transcript and
\* format_script_with_timing, called with an output path: the file is written,
\* whatever the segments are, and its path is returned
FormatToFile(written, output_path) == written \cup {output_path}

\* lines 102-117 and 214-216
SaveAudioWithCaptions ==
    /\ pc = "call"
    /\ call.op = "save_audio_with_captions"
    /\ IF call.generate_captions /\ call.caption_enabled /\ script # <<>>
       THEN /\ result' = [audio_paths |-> call.audio_paths, captions |-> None,
                          caption_files |-> <<>>]
            /\ pc' = "start"
       ELSE /\ result' = [audio_paths |-> call.audio_paths, captions |-> None,
                          caption_files |-> <<>>,
                          caption_error |-> call.generate_captions /\ script = <<>>]
            /\ pc' = "returned"
    /\ UNCHANGED <<captioner, script, audio_duration, audio_path, asr, ffmpeg, lines, line_no,
                   current_speaker_id, script_segments, caption_segments, strategy,
                   speaker_mapping, aligner, call, audio_no, format_no, unwritable, files>>

\* lines 237-255: FileNotFoundError is raised for a missing audio file
GenerateCaptionsForAudio ==
    /\ pc = "call"
    /\ call.op = "generate_captions_for_audio"
    /\ IF audio_path = "exists"
       THEN /\ result' = result
            /\ pc' = "start"
       ELSE /\ result' = [raised |-> "FileNotFoundError"]
            /\ pc' = "returned"
    /\ UNCHANGED <<captioner, script, audio_duration, audio_path, asr, ffmpeg, lines, line_no,
                   current_speaker_id, script_segments, caption_segments, strategy,
                   speaker_mapping, aligner, call, audio_no, format_no, unwritable, files>>

\* lines 154 and 208-209: save_audio_with_captions got no segment
NoCaptionSegments ==
    /\ pc = "done"
    /\ call.op = "save_audio_with_captions"
    /\ caption_segments = <<>>
    /\ pc' = "returned"
    /\ UNCHANGED <<captioner, script, audio_duration, audio_path, asr, ffmpeg, lines, line_no,
                   current_speaker_id, script_segments, caption_segments, strategy,
                   speaker_mapping, aligner, caller>>

\* lines 154-163: the segments of save_audio_with_captions are split
SplitForSave ==
    /\ pc = "done"
    /\ call.op = "save_audio_with_captions"
    /\ caption_segments # <<>>
    /\ caption_segments' = SplitLongSegments(caption_segments, processor_max_segment_duration)
    /\ audio_no' = 1
    /\ pc' = "mkdir"
    /\ UNCHANGED <<captioner, script, audio_duration, audio_path, asr, ffmpeg, lines, line_no,
                   current_speaker_id, script_segments, strategy, speaker_mapping, aligner,
                   call, result, format_no, unwritable, files>>

\* lines 257-273: generate_captions_for_audio splits whatever it got
SplitForAudio ==
    /\ pc = "done"
    /\ call.op = "generate_captions_for_audio"
    /\ caption_segments' = SplitLongSegments(caption_segments, processor_max_segment_duration)
    /\ result' = [caption_segments |-> caption_segments', caption_files |-> <<>>]
    /\ audio_no' = 1
    /\ format_no' = 1
    /\ pc' = "write"
    /\ UNCHANGED <<captioner, script, audio_duration, audio_path, asr, ffmpeg, lines, line_no,
                   current_speaker_id, script_segments, strategy, speaker_mapping, aligner,
                   call, unwritable, files>>

\* lines 165-170: the captions directory of the next audio path is created; a failing
\* mkdir is caught at lines 211-213
MakeCaptionDir ==
    /\ pc = "mkdir"
    /\ audio_no <= Len(call.audio_paths)
    /\ IF "captions" \in unwritable
       THEN /\ result' = result @@ [caption_error |-> TRUE]
            /\ pc' = "returned"
            /\ format_no' = format_no
       ELSE /\ result' = result
            /\ pc' = "write"
            /\ format_no' = 1
    /\ UNCHANGED <<captioner, script, audio_duration, audio_path, asr, ffmpeg, lines, line_no,
                   current_speaker_id, script_segments, caption_segments, strategy,
                   speaker_mapping, aligner, call, audio_no, unwritable, files>>

\* lines 172-200 and 275-303: the file of the next format is written and recorded
WriteCaptionFile ==
    /\ pc = "write"
    /\ format_no <= Len(CaptionFormats)
    /\ CaptionFormats[format_no] \notin unwritable
    /\ files' = FormatToFile(files, CaptionPath(BaseName, CaptionFormats[format_no]))
    /\ result' = [result EXCEPT !.caption_files =
                      (<<BaseName, CaptionFormats[format_no]>>
                           :> CaptionPath(BaseName, CaptionFormats[format_no])) @@ @]
    /\ format_no' = format_no + 1
    /\ UNCHANGED <<captioner, script, audio_duration, audio_path, asr, ffmpeg, pc, lines, line_no,
                   current_speaker_id, script_segments, caption_segments, strategy,
                   speaker_mapping, aligner, call, audio_no, unwritable>>

\* the exception of a failing write caught outside the loop over the formats
WriteCaptionFileFailsAborting ==
    /\ pc = "write"
    /\ format_no <= Len(CaptionFormats)
    /\ CaptionFormats[format_no] \in unwritable
    /\ pc' = "returned"
    /\ UNCHANGED <<captioner, script, audio_duration, audio_path, asr, ffmpeg, lines, line_no,
                   current_speaker_id, script_segments, caption_segments, strategy,
                   speaker_mapping, aligner, caller>>

\* lines 202-203 and 305-306: the file cannot be written, the format is skipped
WriteCaptionFileFails ==
    /\ pc = "write"
    /\ format_no <= Len(CaptionFormats)
    /\ CaptionFormats[format_no] \in unwritable
    /\ format_no' = format_no + 1
    /\ UNCHANGED <<captioner, script, audio_duration, audio_path, asr, ffmpeg, pc, lines, line_no,
                   current_speaker_id, script_segments, caption_segments, strategy,
                   speaker_mapping, aligner, call, result, audio_no, unwritable, files>>

\* line 165 and line 308: after the last format, the next audio path or the return
FormatsWritten ==
    /\ pc = "write"
    /\ format_no > Len(CaptionFormats)
    /\ IF call.op = "save_audio_with_captions"
       THEN audio_no' = audio_no + 1 /\ pc' = "mkdir"
       ELSE audio_no' = audio_no /\ pc' = "returned"
    /\ UNCHANGED <<captioner, script, audio_duration, audio_path, asr, ffmpeg, lines, line_no,
                   current_speaker_id, script_segments, caption_segments, strategy,
                   speaker_mapping, aligner, call, result, format_no, unwritable, files>>

\* lines 205-218: after the last audio path
CaptionsSaved ==
    /\ pc = "mkdir"
    /\ audio_no > Len(call.audio_paths)
    /\ result' = [result EXCEPT !.captions = caption_segments]
    /\ pc' = "returned"
    /\ UNCHANGED <<captioner, script, audio_duration, audio_path, asr, ffmpeg, lines, line_no,
                   current_speaker_id, script_segments, caption_segments, strategy,
                   speaker_mapping, aligner, call, audio_no, format_no, unwritable, files>>

\* the processor's generator runs without faster-whisper
ProcessorNext ==
    \/ SaveAudioWithCaptions
    \/ GenerateCaptionsForAudio
    \/ ParseNext
    \/ GenerateNoSegments
    \/ CalculateTiming
    \/ WordAlignmentUnavailable
    \/ SilenceAlignment
    \/ SilenceAlignmentUnavailable
    \/ HeuristicEstimate
    \/ NoCaptionSegments
    \/ SplitForSave
    \/ SplitForAudio
    \/ MakeCaptionDir
    \/ WriteCaptionFile
    \/ WriteCaptionFileFails
    \/ FormatsWritten
    \/ CaptionsSaved

\* original_script: without a unit (empty, blank, a label without text) and with units
ProcessorScripts ==
    { <<>>, <<" ", "\n", " ">>, <<"S", "p", "e", "a", "k", "e", "r", " ", "1", ":">> }
        \cup TimingScripts

\* caption_formats: two lists of formats, and None for the default
FormatLists ==
    { None, <<"json", "script_timing">>, <<"vtt", "transcript", "srt">> }

ProcessorCalls ==
    [op : {"save_audio_with_captions"}, audio_paths : {<<"a">>, <<"a", "b">>},
     generate_captions : BOOLEAN, caption_enabled : BOOLEAN, caption_formats : FormatLists]
    \cup [op : {"generate_captions_for_audio"}, audio_path : {"a"},
          caption_formats : FormatLists]

InitProcessor ==
    /\ script \in ProcessorScripts
    /\ audio_duration \in {R(4), R(30)}
    /\ call \in ProcessorCalls
    /\ audio_path \in IF call.op = "save_audio_with_captions" THEN {"exists"}
                      ELSE {"missing", "exists"}
    /\ asr = [kind |-> "unavailable", words |-> <<>>]
    /\ ffmpeg \in { [kind |-> "absent", silences |-> <<>>],
                    [kind |-> "ok", silences |-> <<<<R(1), R(2)>>>>] }
    /\ speaker_mapping = <<>>
    /\ unwritable \in { {}, {"srt"}, {"vtt", "json"}, {"captions"},
                        {"srt", "vtt", "json", "transcript", "script_timing"} }
    /\ pc = "call"
    /\ NewCaptioner
    /\ lines = <<>>
    /\ line_no = 1
    /\ current_speaker_id = NoSpeaker
    /\ script_segments = <<>>
    /\ caption_segments = <<>>
    /\ strategy = "none"
    /\ cur_seg_idx = 0
    /\ cur_word_idx = 0
    /\ match = <<>>
    /\ result = <<>>
    /\ audio_no = 0
    /\ format_no = 0
    /\ files = {}

SpecProcessor == InitProcessor /\ [][ProcessorNext]_vars

-----------------------------------------------------------------------------
(* VibeVoiceProcessorWithCaptions: enable_captions, disable_captions and        *)
(* save_audio_with_captions                                                      *)
(* (src/vibevoice/processor/vibevoice_processor_with_captions.py).               *)
(* A CaptionGenerator is represented by the arguments it was built with,         *)
(* <<model_name, device, language>>; captions are the list of the results of     *)
(* the audio files, each result naming the generator that made it.               *)

\* the arguments of __init__ and of enable_captions
CaptionConfigs ==
    {<<model_name, device, language>> :
        model_name \in {"base", "small"}, device \in {"None", "cpu"},
        language \in {"None", "en"}}

\* the configuration a generator is built from (lines 77-81)
Configured == <<caption_model, caption_device, caption_language>>

\* everything but the caption state, the call and its result
NotCaptioner ==
    <<script, audio_duration, audio_path, asr, ffmpeg, pc, lines, line_no,
      current_speaker_id, script_segments, caption_segments, strategy, speaker_mapping,
      aligner, audio_no, format_no, unwritable, files>>

\* lines 260-267: caption_generator keeps its value
EnableCaptions ==
    /\ pc = "captions"
    /\ \E config \in CaptionConfigs :
           /\ call' = [op |-> "enable_captions", config |-> config]
           /\ caption_model' = config[1]
           /\ caption_device' = config[2]
           /\ caption_language' = config[3]
    /\ caption_enabled' = TRUE
    /\ caption_generator_initialized' = FALSE
    /\ result' = <<>>
    /\ UNCHANGED <<caption_generator, NotCaptioner>>

\* lines 269-274
DisableCaptions ==
    /\ pc = "captions"
    /\ call' = [op |-> "disable_captions"]
    /\ caption_enabled' = FALSE
    /\ caption_generator' = <<>>
    /\ caption_generator_initialized' = FALSE
    /\ result' = <<>>
    /\ UNCHANGED <<caption_model, caption_device, caption_language, NotCaptioner>>

\* lines 73-86 (_ensure_caption_generator); loads tells whether CaptionGenerator(...)
\* returns, or raises as its _load_model does without Whisper or without the model
EnsureCaptionGenerator(loads) ==
    IF ~caption_generator_initialized /\ caption_enabled
    THEN IF loads
         THEN /\ caption_generator' = Configured
              /\ caption_generator_initialized' = TRUE
              /\ caption_enabled' = caption_enabled
         ELSE /\ caption_enabled' = FALSE
              /\ UNCHANGED <<caption_generator, caption_generator_initialized>>
    ELSE UNCHANGED <<caption_enabled, caption_generator, caption_generator_initialized>>

\* lines 88-211 for one audio file; transcribes tells whether the generator's
\* generate_captions_for_script or transcribe_audio returns, or raises (line 207)
SaveWithCaptions ==
    /\ pc = "captions"
    /\ \E generate_captions \in BOOLEAN, loads \in BOOLEAN, transcribes \in BOOLEAN :
           /\ call' = [op |-> "save_audio_with_captions",
                       generate_captions |-> generate_captions]
           /\ IF generate_captions /\ caption_enabled
              THEN /\ EnsureCaptionGenerator(loads)
                   /\ result' = [captions |-> IF caption_generator' # <<>> /\ transcribes
                                              THEN <<[generator |-> caption_generator']>>
                                              ELSE <<>>,
                                 caption_error |-> caption_generator' # <<>> /\ ~transcribes]
              ELSE /\ result' = [captions |-> <<>>, caption_error |-> FALSE]
                   /\ UNCHANGED <<caption_enabled, caption_generator,
                                  caption_generator_initialized>>
    /\ UNCHANGED <<caption_model, caption_device, caption_language, NotCaptioner>>

CaptionsNext ==
    \/ EnableCaptions
    \/ DisableCaptions
    \/ SaveWithCaptions

\* a processor built with any configuration (lines 61-71)
InitCaptions ==
    /\ call = [op |-> "__init__"]
    /\ result = <<>>
    /\ caption_enabled = TRUE
    /\ caption_generator = <<>>
    /\ caption_generator_initialized = FALSE
    /\ \E config \in CaptionConfigs :
           /\ caption_model = config[1]
           /\ caption_device = config[2]
           /\ caption_language = config[3]
    /\ pc = "captions"
    /\ script = <<>>
    /\ audio_duration = R(1)
    /\ audio_path = "none"
    /\ asr = [kind |-> "unavailable", words |-> <<>>]
    /\ ffmpeg = [kind |-> "absent", silences |-> <<>>]
    /\ speaker_mapping = <<>>
    /\ lines = <<>>
    /\ line_no = 1
    /\ current_speaker_id = NoSpeaker
    /\ script_segments = <<>>
    /\ caption_segments = <<>>
    /\ strategy = "none"
    /\ cur_seg_idx = 0
    /\ cur_word_idx = 0
    /\ match = <<>>
    /\ audio_no = 0
    /\ format_no = 0
    /\ unwritable = {}
    /\ files = {}

SpecCaptions == InitCaptions /\ [][CaptionsNext]_vars

-----------------------------------------------------------------------------
(* The properties of the returned segments *)

\* generate_captions_from_script has returned the segments of a script with units
Returned == pc = "done" /\ script_segments # <<>>

\* the word aligner is used: the audio file exists, faster-whisper is importable
\* and it returned at least one word
WordAlignerUsed ==
    audio_path = "exists" /\ asr.kind = "words" /\ asr.words # <<>>

\* the silence aligner is used: the audio file exists, ffmpeg is on PATH, exits 0
\* and at least one silence was parsed
SilenceAlignerUsed ==
    audio_path = "exists" /\ ffmpeg.kind = "ok" /\ ffmpeg.silences # <<>>

\* C1: in the returned list, every segment ends no later than the next one starts,
\* whichever strategy timed it.
C1_NoOverlap ==
    Returned =>
        \A i \in 1..(Len(caption_segments) - 1) :
            RLe(caption_segments[i].end_time, caption_segments[i + 1].start_time)

\* C2: every returned segment satisfies 0 <= start_time <= end_time <= audio_duration,
\* whichever strategy timed it.
C2_WithinAudio ==
    Returned =>
        \A i \in 1..Len(caption_segments) :
            /\ RLe(R(0), caption_segments[i].start_time)
            /\ RLe(caption_segments[i].start_time, caption_segments[i].end_time)
            /\ RLe(caption_segments[i].end_time, audio_duration)

\* C3: the last returned segment ends at audio_duration exactly, whichever strategy
\* timed it.
C3_LastEndsAtAudioDuration ==
    Returned /\ caption_segments # <<>> =>
        caption_segments[Len(caption_segments)].end_time = audio_duration

\* C4: there is one returned segment per unit, in order: segment i has the text and
\* the speaker_id of unit i, whichever strategy timed it.
C4_OneSegmentPerUnit ==
    Returned =>
        /\ Len(caption_segments) = Len(script_segments)
        /\ \A i \in 1..Len(caption_segments) :
               /\ caption_segments[i].text = script_segments[i].text
               /\ caption_segments[i].speaker_id = script_segments[i].speaker_id

\* C5: for a script with units the call returns a non-empty list, timed by the word
\* aligner iff it is usable, otherwise by the silence aligner iff it is usable,
\* otherwise by the heuristic (an aligner that raises or fails is an aligner that is
\* not usable: the call goes on to the next strategy).
C5_CascadingFallback ==
    Returned =>
        /\ caption_segments # <<>>
        /\ strategy = "word" <=> WordAlignerUsed
        /\ strategy = "silence" <=> ~WordAlignerUsed /\ SilenceAlignerUsed
        /\ strategy = "heuristic" <=> ~WordAlignerUsed /\ ~SilenceAlignerUsed

\* the time between the end of segment i and the start of segment i + 1
PauseAfter(segs, i) == RSub(segs[i + 1].start_time, segs[i].end_time)

\* C6: the segments of the heuristic estimator cover the audio exactly: the first
\* starts at 0, the last ends at audio_duration, no duration and no pause is
\* negative, and the durations and the pauses between consecutive segments sum to
\* audio_duration; a single unit gives the one segment [0, audio_duration].
C6_HeuristicCoversAudio ==
    Returned /\ strategy = "heuristic" =>
        LET n == Len(caption_segments)
            durations == [i \in 1..n |-> RSub(caption_segments[i].end_time,
                                              caption_segments[i].start_time)]
            pauses == [i \in 1..(n - 1) |-> PauseAfter(caption_segments, i)]
        IN  /\ n = Len(script_segments)
            /\ caption_segments[1].start_time = R(0)
            /\ caption_segments[n].end_time = audio_duration
            /\ \A i \in 1..n : RLe(R(0), durations[i])
            /\ \A i \in 1..(n - 1) : RLe(R(0), pauses[i])
            /\ RAdd(RSum(durations), RSum(pauses)) = audio_duration
            /\ Len(script_segments) = 1 =>
                   /\ n = 1
                   /\ caption_segments[1].start_time = R(0)
                   /\ caption_segments[1].end_time = audio_duration

\* without an audio path, four units were timed with a pause after each of the
\* first three
C6_Witness ==
    /\ Returned
    /\ strategy = "heuristic"
    /\ audio_path = "none"
    /\ Len(caption_segments) = 4
    /\ \A i \in 1..3 : RLt(R(0), PauseAfter(caption_segments, i))
    /\ caption_segments[4].end_time = audio_duration

-----------------------------------------------------------------------------
(* The parser's properties *)

\* the text of a script line without its speaker label
LineText(raw) ==
    LET m == MatchSpeaker(Strip(raw))
    IN  IF m.ok THEN Strip(m.text) ELSE Strip(raw)

\* the speaker the grammar gives to line j: the id of the last "Speaker N:" line
\* among lines 1..j, or 1 if there is none
ExpectedSpeaker(ls, j) ==
    LET labelled == {i \in 1..j : MatchSpeaker(Strip(ls[i])).ok}
    IN  IF labelled = {} THEN 1
        ELSE MatchSpeaker(Strip(ls[Nth(labelled, Cardinality(labelled))])).id

\* C7: every unit a line adds carries the id of the most recent "Speaker N:" line
\* up to and including that line, or 1 if there is no such line.
C7_SpeakerInherited ==
    [][InLoop =>
          \A k \in (Len(script_segments) + 1)..Len(script_segments') :
              script_segments'[k].speaker_id = ExpectedSpeaker(lines, line_no)]_vars

\* a bare line after a "Speaker 3:" line has produced a unit of speaker 3
C7_Witness ==
    /\ pc = "parsed"
    /\ Len(lines) = 2
    /\ MatchSpeaker(Strip(lines[1])).ok
    /\ MatchSpeaker(Strip(lines[1])).id = 3
    /\ Strip(lines[2]) # <<>>
    /\ ~MatchSpeaker(Strip(lines[2])).ok
    /\ script_segments # <<>>
    /\ script_segments[Len(script_segments)].speaker_id = 3
    /\ script_segments[Len(script_segments)].text = Strip(lines[2])

\* C8: every unit is the single-space join of whole consecutive sentences of one
\* line already read, and has more than MAX_WORDS words only if it is one sentence.
C8_WholeSentencesWithinLimit ==
    \A k \in 1..Len(script_segments) :
        \E j \in 1..Min(line_no - 1, Len(lines)) :
            LET ss == SplitIntoSentences(LineText(lines[j]))
            IN  \E a \in 1..Len(ss) : \E b \in a..Len(ss) :
                    /\ script_segments[k].text = Join(SubSeq(ss, a, b), <<" ">>)
                    /\ Len(Words(script_segments[k].text)) > MAX_WORDS => a = b

\* a line of 7 + 7 + 2 words was packed into a unit of two sentences (14 words) and
\* a unit of one, and another line gave a one-sentence unit of 16 words
C8_Witness ==
    /\ pc = "parsed"
    /\ \E k \in 1..Len(script_segments) :
           /\ script_segments[k].word_count = 14
           /\ Len(SplitIntoSentences(script_segments[k].text)) = 2
    /\ \E k \in 1..Len(script_segments) :
           /\ script_segments[k].word_count = 16
           /\ Len(SplitIntoSentences(script_segments[k].text)) = 1

\* C9: the words of the units, in order, are the words of the script's lines with
\* the speaker labels removed.
C9_RoundTrip ==
    pc = "parsed" =>
        Flatten([k \in 1..Len(script_segments) |-> Words(script_segments[k].text)])
            = Flatten([j \in 1..Len(lines) |-> Words(LineText(lines[j]))])

\* two lines were parsed into at least four units, one of them after a flush
C9_Witness ==
    /\ pc = "parsed"
    /\ Len(lines) = 2
    /\ Len(script_segments) >= 4
    /\ \A j \in 1..2 : Len(SplitIntoSentences(LineText(lines[j]))) >= 2

\* C10: every unit has a non-empty text, a word_count >= 1 that is the number of
\* whitespace-separated tokens of the text, and a char_count that is its length.
C10_UnitCounts ==
    \A k \in 1..Len(script_segments) :
        /\ script_segments[k].text # <<>>
        /\ script_segments[k].word_count >= 1
        /\ script_segments[k].word_count = Len(Words(script_segments[k].text))
        /\ script_segments[k].char_count = Len(script_segments[k].text)

\* a unit of two sentences, whose text holds the joining space
C10_Witness ==
    /\ pc = "parsed"
    /\ \E k \in 1..Len(script_segments) :
           /\ Len(SplitIntoSentences(script_segments[k].text)) = 2
           /\ script_segments[k].word_count = 15
           /\ script_segments[k].char_count = 31

-----------------------------------------------------------------------------
(* The processor's properties *)

\* generate_captions_from_script has returned to the processor
Generated == pc \in {"done", "mkdir", "write", "returned"} /\ lines # <<>>

\* C11: when the parser finds no unit, generate_captions_from_script returns the
\* empty list and neither save_audio_with_captions nor generate_captions_for_audio
\* writes a caption file.
C11_NoFileWithoutUnits ==
    Generated /\ script_segments = <<>> => caption_segments = <<>> /\ files = {}

\* the loop over the formats has been run for every audio path and the call has
\* returned
FormatsDone ==
    /\ pc = "returned"
    /\ "caption_files" \in DOMAIN result
    /\ call.op = "save_audio_with_captions" => result.captions # None

\* the stems of the audio paths of the call
BaseNames ==
    IF call.op = "save_audio_with_captions"
    THEN {call.audio_paths[k] : k \in 1..Len(call.audio_paths)}
    ELSE {call.audio_path}

\* C12: a format whose file cannot be written is skipped, with no entry in
\* caption_files; every other requested format is written and recorded, and the call
\* returns normally.
C12_WriteFailureIsolated ==
    FormatsDone =>
        \A b \in BaseNames : \A k \in 1..Len(CaptionFormats) :
            IF CaptionFormats[k] \in unwritable
            THEN /\ <<b, CaptionFormats[k]>> \notin DOMAIN result.caption_files
                 /\ CaptionPath(b, CaptionFormats[k]) \notin files
            ELSE /\ <<b, CaptionFormats[k]>> \in DOMAIN result.caption_files
                 /\ result.caption_files[<<b, CaptionFormats[k]>>]
                        = CaptionPath(b, CaptionFormats[k])
                 /\ CaptionPath(b, CaptionFormats[k]) \in files

\* a call has returned after a format failed and a later format was written
C12_Witness ==
    /\ FormatsDone
    /\ \E j, k \in 1..Len(CaptionFormats) :
           /\ j < k
           /\ CaptionFormats[j] \in unwritable
           /\ CaptionFormats[k] \notin unwritable
           /\ \A b \in BaseNames : CaptionPath(b, CaptionFormats[k]) \in files

-----------------------------------------------------------------------------
(* The formatters' and split_long_segments' properties                        *)

\* the call `op` has returned a value
HasReturned(op) == pc = "returned" /\ call.op = op

\* C13: format_srt emits for each segment, in order, four lines, each ended by a line
\* break: the 1-based index, `start --> end`, the text line with `[SpeakerName] ` before
\* the text when speaker_name is not empty, and a blank line, after the last segment
\* too.
C13_FourLinesPerSegment ==
    HasReturned("format_srt") =>
        result = Flatten([i \in 1..Len(caption_segments) |->
                     IntToChars(i) \o <<"\n">>
                     \o FormatSrtTime(Millis(caption_segments[i].start_time))
                     \o <<" ", "-", "-", ">", " ">>
                     \o FormatSrtTime(Millis(caption_segments[i].end_time)) \o <<"\n">>
                     \o (IF caption_segments[i].speaker_name = <<>> THEN <<>>
                         ELSE <<"[">> \o caption_segments[i].speaker_name \o <<"]", " ">>)
                     \o caption_segments[i].text \o <<"\n">>
                     \o <<"\n">>])

\* C14: for a whole number of milliseconds below 100 hours, _format_srt_time gives
\* HH:MM:SS,mmm with the hours, the minutes, the seconds and the milliseconds of the
\* time, and _format_vtt_time the same with `.` in the place of `,`.
C14_ExactTimestamp ==
    pc = "returned" /\ call.op \in {"_format_srt_time", "_format_vtt_time"} =>
        result = ZeroPad(call.seconds \div 3600000, 2) \o <<":">>
                 \o ZeroPad((call.seconds % 3600000) \div 60000, 2) \o <<":">>
                 \o ZeroPad((call.seconds % 60000) \div 1000, 2)
                 \o <<IF call.op = "_format_srt_time" THEN "," ELSE ".">>
                 \o ZeroPad(call.seconds % 1000, 3)

\* the line of the transcript for a segment: the prefixes that the toggles ask for,
\* then the text
ExpectedLine(segment) ==
    (IF call.include_timestamps
     THEN <<"[">> \o ZeroPad((segment.start_time[1] \div segment.start_time[2]) \div 60, 2)
          \o <<":">> \o ZeroPad((segment.start_time[1] \div segment.start_time[2]) % 60, 2)
          \o <<"]", " ">>
     ELSE <<>>)
    \o (IF call.include_speakers /\ segment.speaker_name # <<>>
        THEN segment.speaker_name \o <<":", " ">> ELSE <<>>)
    \o segment.text

\* the lines of the transcript that format_transcript returned
TranscriptLines == IF result = <<>> THEN <<>> ELSE SplitOn(result, "\n")

C16_AllOrNothing ==
    HasReturned("create_caption_package") =>
        IF "raised" \in DOMAIN result
        THEN files = {}
        ELSE \A format_name \in DOMAIN result : result[format_name] \in files

\* C17: split_long_segments passes a segment of duration d <= max_duration through
\* unchanged and replaces a longer one by ceiling(d / max_duration) sub-segments of
\* equal duration.
C17_CeilingEqualPieces ==
    HasReturned("split_long_segments") =>
        LET Duration(s) == RSub(s.end_time, s.start_time)
            Ratio(s) == RDiv(Duration(s), call.max_duration)
            Count(s) == IF RLe(Duration(s), call.max_duration) THEN 1
                        ELSE (Ratio(s)[1] + Ratio(s)[2] - 1) \div Ratio(s)[2]
            Offset(k) == Sum([j \in 1..(k - 1) |-> Count(caption_segments[j])])
        IN  /\ Len(result) = Offset(Len(caption_segments) + 1)
            /\ \A k \in 1..Len(caption_segments) :
                   IF RLe(Duration(caption_segments[k]), call.max_duration)
                   THEN result[Offset(k) + 1] = caption_segments[k]
                   ELSE \A i \in 1..Count(caption_segments[k]) :
                            RSub(result[Offset(k) + i].end_time,
                                 result[Offset(k) + i].start_time)
                                = RDiv(Duration(caption_segments[k]),
                                       R(Count(caption_segments[k])))

\* the number of segments that split_long_segments puts in the place of segment s
Pieces(s) ==
    IF RLe(RSub(s.end_time, s.start_time), call.max_duration) THEN 1
    ELSE Len(SplitSegment(s, RSub(s.end_time, s.start_time), call.max_duration))

\* the segments of the result that are in the place of caption_segments[k]
PiecesOf(k) ==
    LET before == Sum([j \in 1..(k - 1) |-> Pieces(caption_segments[j])])
    IN  SubSeq(result, before + 1, before + Pieces(caption_segments[k]))

\* the indices of the segments that split_long_segments has split
SplitIndices ==
    {k \in 1..Len(caption_segments) :
        RLt(call.max_duration,
            RSub(caption_segments[k].end_time, caption_segments[k].start_time))}

\* C28: every segment that split_long_segments returns has a duration of at most
\* max_duration.
C28_NoLongerThanMax ==
    HasReturned("split_long_segments") =>
        \A i \in 1..Len(result) :
            RLe(RSub(result[i].end_time, result[i].start_time), call.max_duration)

\* C29: the sub-segments in the place of a split segment are contiguous, begin at
\* its start_time and end at its end_time, each has a non-empty text of at least
\* one word, and their words in order are the words of the segment.
C29_ContentAndCoverage ==
    HasReturned("split_long_segments") =>
        \A k \in SplitIndices :
            /\ \A i \in 1..(Len(PiecesOf(k)) - 1) :
                   PiecesOf(k)[i].end_time = PiecesOf(k)[i + 1].start_time
            /\ PiecesOf(k)[1].start_time = caption_segments[k].start_time
            /\ PiecesOf(k)[Len(PiecesOf(k))].end_time = caption_segments[k].end_time
            /\ \A i \in 1..Len(PiecesOf(k)) :
                   PiecesOf(k)[i].text # <<>> /\ PiecesOf(k)[i].word_count >= 1
            /\ Flatten([i \in 1..Len(PiecesOf(k)) |-> Words(PiecesOf(k)[i].text)])
                   = Words(caption_segments[k].text)

-----------------------------------------------------------------------------
(* The word aligner's properties *)

\* the loop of the word aligner has just appended the segment of unit match.seg_idx
UnitAligned == pc = "align" /\ DOMAIN match # {}

\* C18: a unit for which no candidate reaches half of the unit's words is timed by
\* proportional timing: segment_start and segment_end are those of the fallback, and
\* the segment appended starts there.
C18_UnmatchedIsProportional ==
    UnitAligned /\ ~match.accepted =>
        /\ <<match.segment_start, match.segment_end>>
               = Proportional(script_segments, match.seg_idx, audio_duration, match.prev_end)
        /\ caption_segments[Len(caption_segments)].start_time
               = Proportional(script_segments, match.seg_idx, audio_duration,
                              match.prev_end)[1]

\* C19: for a unit accepted as matched, segment_start is the start of the first matched
\* word of the transcription and segment_end the end of the last matched one, before
\* the segment is moved after the previous one and before the last end is set to the
\* audio duration.
C19_MatchedSpan ==
    UnitAligned /\ match.accepted =>
        /\ match.segment_start
               = AlignWithFasterWhisper(asr)[match.matched[1] + 1].start
        /\ match.segment_end
               = AlignWithFasterWhisper(asr)[match.matched[Len(match.matched)] + 1].end

\* C20: after a unit is matched, word_idx is greater than the index of every word of
\* the transcription that the match consumed.
C20_CursorPastMatch ==
    UnitAligned /\ match.accepted =>
        \A k \in 1..Len(match.matched) : cur_word_idx > match.matched[k]

\* C21: word_idx does not decrease from one unit to the next, and the match of a unit
\* starts at an index of the transcription that is at least the value of word_idx when
\* the unit is processed and less than that value plus 200.
C21_ForwardInWindow ==
    UnitAligned =>
        /\ cur_word_idx >= match.word_idx
        /\ match.accepted =>
               /\ match.start_word_idx >= match.word_idx
               /\ match.start_word_idx < match.word_idx + 200

\* a unit has been matched at the last index of its window
C21_Witness ==
    /\ UnitAligned
    /\ match.accepted
    /\ match.start_word_idx = match.word_idx + 199

\* C22: the words of the transcription are normalised as the words of the script are
\* (lower case, surrounding .,!?;: trimmed, quotes, dashes and ellipsis replaced), so
\* that a word of the transcription in the search window that differs from the unit's
\* first word only in case or surrounding punctuation is taken as a candidate.
C22_SameNormalisation ==
    UnitAligned =>
        \A k \in match.word_idx..
                 (Min(match.word_idx + 200, Len(AlignWithFasterWhisper(asr))) - 1) :
            LowerStr(StripPunct(CleanText(AlignWithFasterWhisper(asr)[k + 1].word)))
                = SegmentWords(script_segments[match.seg_idx].text)[1]
            => match.matched # <<>>

-----------------------------------------------------------------------------
(* The silence aligner's properties *)

\* generate_captions_from_script has returned segments timed by the silence aligner
\* from as many speech spans as there are units
SilenceTimed ==
    /\ Returned
    /\ strategy = "silence"
    /\ Len(DetectAudioAlignedSegments(ffmpeg, audio_duration, Len(script_segments)))
           = Len(script_segments)

\* the speech time, in the spans, of the first n units: their share of the words
SpeechTimeOf(spans, n) ==
    RMul(RSum([k \in 1..Len(spans) |-> Dur(spans[k])]),
         Frac(Sum([k \in 1..n |-> script_segments[k].word_count]),
              Sum([k \in 1..Len(script_segments) |-> script_segments[k].word_count])))

\* t plus the calibration offset, clamped to [0, audio_duration]
CalibratedOnce(t) == RMax(R(0), RMin(audio_duration, RAdd(t, R(3))))

\* C23: every segment of the silence aligner starts and ends at the time that the
\* unit's share of the words maps to in the detected speech spans, plus the calibration
\* offset of 3.0 s, once, clamped to [0, audio_duration]; the last segment ends at
\* audio_duration.
C23_CalibratedOnce ==
    SilenceTimed =>
        \A i \in 1..Len(caption_segments) :
            <<caption_segments[i].start_time, caption_segments[i].end_time>>
                = << CalibratedOnce(
                         MapToAudio(DetectAudioAlignedSegments(ffmpeg, audio_duration,
                                                               Len(script_segments)),
                                    1,
                                    SpeechTimeOf(DetectAudioAlignedSegments(
                                                     ffmpeg, audio_duration,
                                                     Len(script_segments)), i - 1),
                                    SpeechTimeOf(DetectAudioAlignedSegments(
                                                     ffmpeg, audio_duration,
                                                     Len(script_segments)), i),
                                    R(0), R(0), R(0))[1]),
                     IF i = Len(caption_segments) THEN audio_duration
                     ELSE CalibratedOnce(
                              MapToAudio(DetectAudioAlignedSegments(ffmpeg, audio_duration,
                                                                    Len(script_segments)),
                                         1,
                                         SpeechTimeOf(DetectAudioAlignedSegments(
                                                          ffmpeg, audio_duration,
                                                          Len(script_segments)), i - 1),
                                         SpeechTimeOf(DetectAudioAlignedSegments(
                                                          ffmpeg, audio_duration,
                                                          Len(script_segments)), i),
                                         R(0), R(0), R(0))[2]) >>

\* C24: for a non-empty list of silences and N >= 1 units,
\* _detect_audio_aligned_segments returns exactly N spans, whether or not the speech
\* intervals it detected are N.
C24_ExactlyNSpans ==
    Returned /\ strategy = "silence" =>
        Len(DetectAudioAlignedSegments(ffmpeg, audio_duration, Len(script_segments)))
            = Len(script_segments)

\* the silence aligner has been used for three units with four detected speech
\* intervals, and the boundaries chosen gave four segments after the split at 213 s
C24_Witness ==
    /\ Returned
    /\ strategy = "silence"
    /\ Len(script_segments) = 3
    /\ Len(FilteredSegments(ffmpeg.silences, audio_duration)) = 4
    /\ Len(SplitAt213(SegmentsBetween(SelectedSilenceStarts(ffmpeg.silences, 3,
                                                            audio_duration),
                                      1, R(0), audio_duration, <<>>))) = 4

\* _map_silences_to_sentences has been run with more silences than the boundaries
\* that the units need
MoreSilencesThanBoundaries ==
    /\ Returned
    /\ strategy = "silence"
    /\ Len(FilteredSegments(ffmpeg.silences, audio_duration)) # Len(script_segments)
    /\ Len(ffmpeg.silences) > Len(script_segments) - 1

\* C25: with more silences than the N - 1 boundaries needed, the boundaries are the
\* start times of N - 1 silences, and no silence left out is longer than one chosen,
\* wherever the silences are in the audio.
C25_LongestSilences ==
    MoreSilencesThanBoundaries =>
        LET selected == SelectedSilenceStarts(ffmpeg.silences, Len(script_segments),
                                              audio_duration)
            chosen == {i \in 1..Len(ffmpeg.silences) :
                          \E k \in 1..Len(selected) : selected[k] = ffmpeg.silences[i][1]}
        IN  /\ Len(selected) = Len(script_segments) - 1
            /\ Cardinality(chosen) = Len(script_segments) - 1
            /\ \A i \in chosen : \A j \in 1..Len(ffmpeg.silences) \ chosen :
                   RLe(Dur(ffmpeg.silences[j]), Dur(ffmpeg.silences[i]))

\* the speech intervals of the request after the two filtering passes
Filtered == FilteredSegments(ffmpeg.silences, audio_duration)

\* C27: after the two filtering passes the speech intervals are in ascending order,
\* none but possibly the first is shorter than 0.6 s, and no two adjacent intervals
\* are both shorter than 1.5 s.
C27_FilteredIntervals ==
    Returned /\ strategy = "silence" =>
        /\ \A i \in 1..(Len(Filtered) - 1) :
               /\ RLt(Filtered[i][1], Filtered[i + 1][1])
               /\ ~(RLt(Dur(Filtered[i]), Frac(3, 2)) /\ RLt(Dur(Filtered[i + 1]), Frac(3, 2)))
        /\ \A i \in 2..Len(Filtered) : RLe(Frac(3, 5), Dur(Filtered[i]))

\* the first pass has merged a short interval into its predecessor and more than
\* one interval is left
C27_Witness ==
    /\ Returned
    /\ strategy = "silence"
    /\ Len(FilterShortFrom(SpeechSegments(ffmpeg.silences, audio_duration), 1, <<>>))
           < Len(SpeechSegments(ffmpeg.silences, audio_duration))
    /\ Len(Filtered) >= 2

-----------------------------------------------------------------------------
(* The heuristic estimator's properties *)

HeuristicTimed == Returned /\ strategy = "heuristic"

\* C26: before the scaling to the duration of the audio, the duration of every unit
\* is at least min_segment_duration and at most max_segment_duration.
C26_DurationWithinBounds ==
    HeuristicTimed =>
        \A i \in 1..Len(script_segments) :
            /\ RLe(min_segment_duration,
                   BaseSegmentDuration(script_segments, audio_duration, i - 1))
            /\ RLe(BaseSegmentDuration(script_segments, audio_duration, i - 1),
                   max_segment_duration)

-----------------------------------------------------------------------------
(* The properties of VibeVoiceProcessorWithCaptions *)

\* save_audio_with_captions has returned captions
CaptionsProduced ==
    /\ pc = "captions"
    /\ call.op = "save_audio_with_captions"
    /\ result.captions # <<>>

\* C30: save_audio_with_captions produces captions only when caption_enabled is true
\* after its initialisation attempt, and only with a generator built from the
\* caption_model, caption_device and caption_language configured at the call.
C30_CurrentGenerator ==
    CaptionsProduced =>
        /\ caption_enabled
        /\ \A i \in 1..Len(result.captions) : result.captions[i].generator = Configured
====
